---- MODULE Spec2Model ----
(***************************************************************************)
(* A model of the logbull-go core: the process-wide unique timestamp       *)
(* generator (core/timestamp.go), the batching sender (core/sender.go),    *)
(* the standalone logger (core/logger.go) with its validation, and the     *)
(* field formatting (internal/formatting).                                 *)
(*                                                                         *)
(* A log entry is modelled by its submission number (1, 2, ...); the       *)
(* buffered channel logQueue is a sequence of entries, the closed-or-open  *)
(* stop channel a boolean, the WaitGroup its counter, the admission        *)
(* channel workerSem the number of tokens it holds.  Every goroutine that  *)
(* can run sendBatch (the ticker, a Flush caller, the Shutdown caller      *)
(* that runs the Once body) has a program counter and its local "logs".    *)
(***************************************************************************)
EXTENDS Integers, Sequences, FiniteSets, TLC

(* ------------------------------ bounds --------------------------------- *)
MaxEntries == 3
MaxOverflowEntries == 5
NumFlushers == 1
NumShutdownCallers == 2
NumTsCallers == 2
MaxTsCalls == 3
MaxClockOffset == 2
MaxDeliveryEntries == 2
MaxErrors == 2
MaxLoggerEntries == 2
MaxMapSize == 2
MaxLoggers == 3
MaxChurnEntries == 2

(* ------------------------ program constants ---------------------------- *)
\* sender.go:15-19, scaled down (1000 / 10000 / 1 / 10 in the source)
batchSize == 2
queueCapacity == 3
minWorkers == 1
maxWorkers == 2
\* timestamp.go: timestampNs / 1_000_000_000
NanosPerSecond == 1000000000
\* validation.go:11-18, the limits scaled down (10000 / 100 / 100 in the source)
UuidLength == 36
minApiKeyLen == 10
maxMessageLength == 4
maxFieldsCount == 2
maxFieldKeyLen == 3
\* formatting.go:9, scaled down (10000 in the source)
defaultMaxMessageLength == 4

Flushers == 1..NumFlushers
ShutdownCallers == 1..NumShutdownCallers
TsCallers == 1..NumTsCallers
EntryIds == 1..MaxOverflowEntries
\* wall-clock readings straddling a second boundary
ClockValues == {NanosPerSecond - 1 + i : i \in 0..MaxClockOffset}

VARIABLES
  \* ---- Sender (sender.go:23-31) ----
  logQueue,      \* chan LogEntry, buffered: sequence of queued entries
  stopCh,        \* TRUE once close(s.stopCh) has run
  wg,            \* sync.WaitGroup counter
  workerSem,     \* number of tokens in the workerSem channel
  onceDone,      \* shutdownOnce: the body has run to completion
  onceMu,        \* shutdownOnce: caller inside Do (0 = nobody)
  tickerPc,      \* batchProcessor: "select", "drain", "send", "exited"
  flushPc,       \* per Flush caller: "idle", "drain", "send"
  sdPc,          \* per Shutdown caller: "idle", "blocked", "drain", "send", "wait", "returned"
  logs,          \* local variable logs of each running sendBatch
  tasks,         \* running delivery goroutines: [batch, gated]
  posted,        \* entries whose batch went through sendHTTPRequest (goroutine finished)
  panicked,      \* a goroutine panicked (the process is gone)
  \* ---- history of the sender ----
  nextId,        \* number of the next entry passed to AddLog
  outcome,       \* per entry: "none", "enqueued", "discarded", "dropped"
  lateShutdown,  \* entries passed to AddLog after a Shutdown call returned
  sdSnapshot,    \* entries queued when Shutdown was first invoked
  finalRuns,     \* times the Once body ran through its wg.Wait()
  lastDelivery,  \* the latest sendHTTPRequest that ended: batch, exchange, outcome
  \* ---- timestamp generator (timestamp.go) ----
  clock,           \* time.Now().UnixNano()
  timestampMu,     \* holder of timestampMu (0 = free)
  lastTimestampNs,
  tsPc,            \* per caller: "idle", "locked", "unlock", "return"
  tsResult,        \* per caller: value being returned
  issued,          \* timestamps in critical-section order
  returned,        \* timestamps in call-completion order
  \* ---- standalone logger (logger.go) ----
  logger,          \* what NewLogger returned: error, sender, minLevel
  senderRegistry,  \* len(senderRegistry.senders)
  lastLog,         \* the latest call of LogBullLogger.log and what it did
  loggers,         \* the LogBullLogger values: the one NewLogger returned, then
                   \* those WithContext returned
  \* ---- field formatting (formatting.go) ----
  lastFormat,      \* the latest call of EnsureFields or MergeFields
  \* ---- zap adapter (zap.go) ----
  zapCore,         \* what NewZapCore returned: error, sender, minLevel
  lastEnabled,     \* the latest call of ZapCore.Enabled and its result
  lastWrite        \* the latest call of ZapCore.Write and its LogEntry

senderVars == <<logQueue, stopCh, wg, workerSem, onceDone, onceMu, tickerPc,
                flushPc, sdPc, logs, tasks, posted, panicked, nextId, outcome,
                lateShutdown, sdSnapshot, finalRuns, lastDelivery>>
tsVars == <<clock, timestampMu, lastTimestampNs, tsPc, tsResult, issued, returned>>
zapVars == <<zapCore, lastEnabled, lastWrite>>
lgVars == <<logger, senderRegistry, lastLog, loggers, lastFormat, zapVars>>
vars == <<senderVars, tsVars, lgVars>>

(* ----------------------------- helpers --------------------------------- *)
Range(s) == {s[i] : i \in 1..Len(s)}
Ticker == <<"ticker", 0>>
Drainers == {Ticker} \cup {<<"flush", f>> : f \in Flushers}
                     \cup {<<"shutdown", c>> : c \in ShutdownCallers}
TaskIds == UNION {Range(t.batch) : t \in tasks}
IdsWith(o) == {e \in EntryIds : outcome[e] = o}
\* some receive from logQueue has happened: a received entry stays in a
\* local batch, a running task or the posted set
Received == posted # {} \/ tasks # {} \/ \E d \in Drainers : logs[d] # <<>>
\* how many times entry e occurs in the queue, in a batch being formed, or
\* in the batch of a running delivery
Count(seq, e) == Cardinality({i \in 1..Len(seq) : seq[i] = e})
Occurrences(e) ==
  LET InLogs[ds \in SUBSET Drainers] ==
        IF ds = {} THEN 0
        ELSE LET d == CHOOSE x \in ds : TRUE
             IN  Count(logs[d], e) + InLogs[ds \ {d}]
      InTasks[ts \in SUBSET tasks] ==
        IF ts = {} THEN 0
        ELSE LET t == CHOOSE x \in ts : TRUE
             IN  Count(t.batch, e) + InTasks[ts \ {t}]
  IN  Count(logQueue, e) + InLogs[Drainers] + InTasks[tasks]
SomeShutdownReturned == \E c \in ShutdownCallers : sdPc[c] = "returned"

(* -------------------------- delivery transport ------------------------- *)
\* What one HTTP exchange can be (sender.go:126-178): json.Marshal,
\* http.NewRequest, client.Do or io.ReadAll fails, or a response arrives
\* with a status and a body; the body is no JSON, or it is a
\* LogBullResponse (types.go:24-34) with its rejected count and its errors,
\* each error kept as its Index.
Statuses == {200, 201, 202, 500}
ErrorIndexes == -1..batchSize
ErrorLists == UNION {[1..n -> ErrorIndexes] : n \in 0..MaxErrors}
RejectedCounts == {0, 1}
UnparsableBody == [parsable |-> FALSE, rejected |-> 0, errors |-> <<>>]
\* a LogBullResponse; one that reports no rejection comes with no error or
\* with one, one that reports a rejection with any list of errors
ParsedBodies ==
  {[parsable |-> TRUE, rejected |-> r, errors |-> es] :
     r \in RejectedCounts, es \in ErrorLists}
Bodies ==
  {UnparsableBody}
    \cup {b \in ParsedBodies : b.rejected = 0 => b.errors \in {<<>>, <<0>>}}
HttpEnvs ==
  {[fails |-> f, status |-> 0, body |-> UnparsableBody] :
     f \in {"marshal", "request", "transport", "read"}}
    \cup {[fails |-> "none", status |-> st, body |-> b] :
            st \in Statuses, b \in Bodies}

\* sender.go:165
StatusIsSuccess(status) == status = 200 \/ status = 202

\* the bounds check of handleRejectedLogs (sender.go:186)
IndexInRangeNoLowerBound(index, n) == index < n

IndexInRange(index, n) == index >= 0 /\ index < n

\* sentLogs[err.Index] (sender.go:187); a Go slice starts at index 0, and
\* indexing outside it is a run-time panic
RejectedEntryOneOff(sentLogs, index) ==
  sentLogs[IF index + 2 <= Len(sentLogs) THEN index + 2 ELSE 1]

RejectedEntry(sentLogs, index) == sentLogs[index + 1]

SliceIndexPanics(sentLogs, index) == index < 0 \/ index >= Len(sentLogs)

\* handleRejectedLogs (sender.go:180-198): the per-entry diagnostics, in
\* the order of response.Errors, each <<index reported, entry printed>>
handleRejectedLogs(errors, sentLogs) ==
  LET checked(i) == IndexInRange(errors[i], Len(sentLogs))
      Diag[i \in 0..Len(errors)] ==
        IF i = 0 THEN <<>>
        ELSE IF checked(i) /\ ~SliceIndexPanics(sentLogs, errors[i])
               THEN Append(Diag[i - 1],
                           <<errors[i], RejectedEntry(sentLogs, errors[i])>>)
               ELSE Diag[i - 1]
  IN  [diag   |-> Diag[Len(errors)],
       panics |-> \E i \in 1..Len(errors) :
                    checked(i) /\ SliceIndexPanics(sentLogs, errors[i])]

\* s.client.Do(req) is called once (sender.go:148)
ClientDoCallsWithRetry(fails) == IF fails = "transport" THEN 2 ELSE 1

ClientDoCalls(fails) == 1

\* sendHTTPRequest (sender.go:126-178): the return it leaves by, the
\* number of POST requests it issued and the rejection diagnostics
sendHTTPRequest(sentLogs, env) ==
  LET quiet(path, posts) ==
        [path |-> path, posts |-> posts, diag |-> <<>>, panics |-> FALSE]
  IN  IF env.fails = "marshal" THEN quiet("marshal", 0)
      ELSE IF env.fails = "request" THEN quiet("request", 0)
      ELSE IF env.fails = "transport"
             THEN quiet("transport", ClientDoCalls(env.fails))
      ELSE IF env.fails = "read" THEN quiet("read", ClientDoCalls(env.fails))
      ELSE IF ~StatusIsSuccess(env.status)
             THEN quiet("status", ClientDoCalls(env.fails))
      ELSE IF ~env.body.parsable
             THEN quiet("unparsable", ClientDoCalls(env.fails))
      ELSE IF env.body.rejected > 0
             THEN LET h == handleRejectedLogs(env.body.errors, sentLogs)
                  IN  [path |-> "rejected", posts |-> ClientDoCalls(env.fails),
                       diag |-> h.diag, panics |-> h.panics]
      ELSE quiet("accepted", ClientDoCalls(env.fails))

\* the returns of sendHTTPRequest that give a batch up
FailurePaths == {"marshal", "request", "transport", "read", "status"}

\* lastDelivery: the batch, the status received (0 when no response came),
\* whether the body received parses and the rejected count it then holds,
\* the return taken, the POST requests issued, the errors of the response
\* when handleRejectedLogs was called, and its diagnostics
NoDelivery ==
  [batch |-> <<>>, status |-> 0, parsable |-> FALSE, rejected |-> 0,
   path |-> "none", posts |-> 0, errors |-> <<>>, diag |-> <<>>]

(* -------------------------- standalone logger -------------------------- *)
\* A Go string is a sequence of one-character strings.
Whitespace == {" ", "\t"}
Letters == {"a", "b", "c", "d", "e", "f", "h", "i", "k", "m", "n", "p", "s",
            "t", "v", "A", "F"}
Digits == {"0", "1", "2", "9"}

\* strings.TrimSpace
TrimSpace(str) ==
  LET kept == {i \in 1..Len(str) : str[i] \notin Whitespace}
  IN  IF kept = {} THEN <<>>
      ELSE SubSeq(str, CHOOSE i \in kept : \A j \in kept : i <= j,
                       CHOOSE i \in kept : \A j \in kept : j <= i)

HasPrefix(str, prefix) ==
  Len(str) >= Len(prefix) /\ SubSeq(str, 1, Len(prefix)) = prefix

\* validation.go:11, ^[0-9a-fA-F]{8}-[0-9a-fA-F]{4}-[0-9a-fA-F]{4}-[0-9a-fA-F]{4}-[0-9a-fA-F]{12}$
HexDigits == {"0", "1", "2", "9", "a", "b", "c", "d", "e", "f", "A", "F"}
HyphenPositions == {9, 14, 19, 24}
uuidPattern(str) ==
  /\ Len(str) = UuidLength
  /\ \A i \in 1..Len(str) :
       IF i \in HyphenPositions THEN str[i] = "-" ELSE str[i] \in HexDigits

\* validation.go:12, ^[a-zA-Z0-9_\-\.]{10,}$
ApiKeyChars == Letters \cup Digits \cup {"_", "-", "."}
apiKeyPatternAnyChar(str) == Len(str) >= minApiKeyLen

apiKeyPattern(str) ==
  Len(str) >= minApiKeyLen /\ \A i \in 1..Len(str) : str[i] \in ApiKeyChars

\* ValidateProjectID (validation.go:21-35); "nil" is the nil error
ValidateProjectID(projectID) ==
  IF TrimSpace(projectID) = <<>> THEN "project ID cannot be empty"
  ELSE IF ~uuidPattern(TrimSpace(projectID)) THEN "invalid project ID format"
  ELSE "nil"

\* url.Parse, as far as ValidateHostURL depends on it: the scheme is the
\* run of scheme characters before the first ":", the host is what stands
\* between a leading "//" of the rest and the next "/"
SchemeChars == Digits \cup {"+", "-", "."}
SchemeEnd(str) ==
  LET stops == {i \in 1..Len(str) :
                  str[i] \notin Letters /\ (i = 1 \/ str[i] \notin SchemeChars)}
      first == IF stops = {} THEN 0
               ELSE CHOOSE i \in stops : \A j \in stops : i <= j
  IN  IF first > 0 /\ str[first] = ":" THEN first ELSE 0

urlParse(str) ==
  LET colon == SchemeEnd(str)
      scheme == IF colon > 1 THEN SubSeq(str, 1, colon - 1) ELSE <<>>
      rest == IF colon > 1 THEN SubSeq(str, colon + 1, Len(str)) ELSE str
      slashes == {i \in 3..Len(rest) : rest[i] = "/"}
      authEnd == IF slashes = {} THEN Len(rest)
                 ELSE (CHOOSE i \in slashes : \A j \in slashes : i <= j) - 1
      authority == IF HasPrefix(rest, <<"/", "/">>)
                     THEN SubSeq(rest, 3, authEnd) ELSE <<>>
      colonInFirstSegment ==
        \E i \in 1..Len(rest) :
          rest[i] = ":" /\ \A j \in 1..(i - 1) : rest[j] # "/"
  IN  IF colon = 1 THEN [err |-> "missing protocol scheme", scheme |-> <<>>, host |-> <<>>]
      ELSE IF scheme = <<>> /\ ~HasPrefix(rest, <<"/">>) /\ colonInFirstSegment
             THEN [err |-> "first path segment in URL cannot contain colon",
                   scheme |-> <<>>, host |-> <<>>]
      ELSE IF \E i \in 1..Len(authority) : authority[i] \in Whitespace
             THEN [err |-> "invalid character in host name",
                   scheme |-> <<>>, host |-> <<>>]
      ELSE [err |-> "nil", scheme |-> scheme, host |-> authority]

\* ValidateHostURL (validation.go:37-57)
SchemeAllowed(scheme) ==
  scheme = <<"h", "t", "t", "p">> \/ scheme = <<"h", "t", "t", "p", "s">>

ValidateHostURL(host) ==
  LET parsedURL == urlParse(TrimSpace(host))
  IN  IF TrimSpace(host) = <<>> THEN "host URL cannot be empty"
      ELSE IF parsedURL.err # "nil" THEN "invalid host URL format"
      ELSE IF ~SchemeAllowed(parsedURL.scheme)
             THEN "host URL must use http or https scheme"
      ELSE IF parsedURL.host = <<>> THEN "host URL must have a host component"
      ELSE "nil"

\* ValidateAPIKey (validation.go:59-72)
ValidateAPIKey(apiKey) ==
  IF Len(TrimSpace(apiKey)) < minApiKeyLen
    THEN "API key must be at least 10 characters long"
  ELSE IF ~apiKeyPattern(TrimSpace(apiKey)) THEN "invalid API key format"
  ELSE "nil"

\* types.go:3-11, 43-53; a level that is not in levelPriority has priority 0
LogLevels == {"DEBUG", "INFO", "WARNING", "ERROR", "CRITICAL"}
Priority(level) ==
  CASE level = "DEBUG" -> 10
    [] level = "INFO" -> 20
    [] level = "WARNING" -> 30
    [] level = "ERROR" -> 40
    [] level = "CRITICAL" -> 50
    [] OTHER -> 0

\* ValidateLogMessage (validation.go:74-85)
ValidateLogMessage(message) ==
  IF TrimSpace(message) = <<>> THEN "log message cannot be empty"
  ELSE IF Len(TrimSpace(message)) > maxMessageLength THEN "log message too long"
  ELSE "nil"

\* a field map: the nil map, or the function from its keys to its values
NilFields == [nil |-> TRUE, kv |-> <<>>]
Map(kv) == [nil |-> FALSE, kv |-> kv]

\* ValidateLogFields (validation.go:87-108); whichever key the range
\* reaches first, an offending key makes the result an error
ValidateLogFields(fields) ==
  IF fields.nil THEN "nil"
  ELSE IF Cardinality(DOMAIN fields.kv) > maxFieldsCount THEN "too many fields"
  ELSE IF \E key \in DOMAIN fields.kv : TrimSpace(key) = <<>>
         THEN "field key cannot be empty"
  ELSE IF \E key \in DOMAIN fields.kv : Len(TrimSpace(key)) > maxFieldKeyLen
         THEN "field key too long"
  ELSE "nil"

\* NewLogger (logger.go:21-55) as a function of the Config: the error
\* returned ("nil" for none), whether NewSender was called, the minimum
\* level of the logger, and the Config as given
NewLogger(config) ==
  LET ProjectID == TrimSpace(config.ProjectID)
      Host == TrimSpace(config.Host)
      APIKey == TrimSpace(config.APIKey)
      LogLevel == IF config.LogLevel = "" THEN "INFO" ELSE config.LogLevel
      err == IF ValidateProjectID(ProjectID) # "nil" THEN ValidateProjectID(ProjectID)
             ELSE IF ValidateHostURL(Host) # "nil" THEN ValidateHostURL(Host)
             ELSE IF APIKey # <<>> /\ ValidateAPIKey(APIKey) # "nil"
                    THEN ValidateAPIKey(APIKey)
             ELSE "nil"
  IN  [err |-> err, sender |-> err = "nil", minLevel |-> LogLevel, given |-> config]

NoConfig == [ProjectID |-> <<>>, Host |-> <<>>, APIKey |-> <<>>, LogLevel |-> ""]
\* no NewLogger call has been made
NoLogger == [err |-> "none", sender |-> FALSE, minLevel |-> "", given |-> NoConfig]

\* the LogBullLogger NewLogger returns (logger.go:49-54): the sender it
\* made, the minimum level, an empty context; parent and given tell how a
\* logger was derived (0 and nil: by NewLogger)
RootLogger(sender, minLevel) ==
  [sender |-> sender, minLevel |-> minLevel, context |-> Map(<<>>),
   parent |-> 0, given |-> NilFields]

\* zap.go: the levels of zapcore (go.uber.org/zap/zapcore), from DebugLevel
\* = -1 to FatalLevel = 5
ZapLevels ==
  {"DebugLevel", "InfoLevel", "WarnLevel", "ErrorLevel", "DPanicLevel",
   "PanicLevel", "FatalLevel"}
ZapLevelValue(level) ==
  CASE level = "DebugLevel" -> 0 - 1
    [] level = "InfoLevel" -> 0
    [] level = "WarnLevel" -> 1
    [] level = "ErrorLevel" -> 2
    [] level = "DPanicLevel" -> 3
    [] level = "PanicLevel" -> 4
    [] level = "FatalLevel" -> 5

\* convertZapLevel (zap.go:145-160)
convertZapLevel(level) ==
  CASE level = "DebugLevel" -> "DEBUG"
    [] level = "InfoLevel" -> "INFO"
    [] level = "WarnLevel" -> "WARNING"
    [] level = "ErrorLevel" -> "ERROR"
    [] level \in {"DPanicLevel", "PanicLevel", "FatalLevel"} -> "CRITICAL"
    [] OTHER -> "INFO"

\* convertLogLevelToZap (zap.go:162-177)
convertLogLevelToZap(level) ==
  CASE level = "DEBUG" -> "DebugLevel"
    [] level = "INFO" -> "InfoLevel"
    [] level = "WARNING" -> "WarnLevel"
    [] level = "ERROR" -> "ErrorLevel"
    [] level = "CRITICAL" -> "FatalLevel"
    [] OTHER -> "InfoLevel"

\* ZapCore.Enabled (zap.go:70-72)
ZapEnabled(minLevel, level) == ZapLevelValue(level) >= ZapLevelValue(minLevel)

\* NewZapCore (zap.go:20-68) as a function of the Config: the error
\* returned ("nil" for none), whether the core has a sender (none without
\* credentials), config.LogLevel after the default, and minLevel
NewZapCore(config) ==
  LET ProjectID == TrimSpace(config.ProjectID)
      Host == TrimSpace(config.Host)
      APIKey == TrimSpace(config.APIKey)
      LogLevel == IF config.LogLevel = "" THEN "INFO" ELSE config.LogLevel
      err == IF ProjectID = <<>> \/ Host = <<>> THEN "nil"
             ELSE IF ValidateProjectID(ProjectID) # "nil"
                    THEN ValidateProjectID(ProjectID)
             ELSE IF ValidateHostURL(Host) # "nil" THEN ValidateHostURL(Host)
             ELSE IF APIKey # <<>> /\ ValidateAPIKey(APIKey) # "nil"
                    THEN ValidateAPIKey(APIKey)
             ELSE "nil"
  IN  [err |-> err,
       sender |-> err = "nil" /\ ProjectID # <<>> /\ Host # <<>>,
       LogLevel |-> LogLevel,
       minLevel |-> convertLogLevelToZap(LogLevel)]

\* no NewZapCore call has been made
NoZapCore ==
  [err |-> "none", sender |-> FALSE, LogLevel |-> "", minLevel |-> "InfoLevel"]
NoEnabled == [level |-> "none", enabled |-> FALSE]
\* lastWrite: the level of the zap entry, whether a LogEntry went to the
\* sender, its number and its Level
NoWrite == [level |-> "none", sent |-> FALSE, entry |-> 0, Level |-> ""]

\* lastLog: the logger called (its place in loggers) and the arguments,
\* where the call ended, the diagnostic on stderr, whether the console line
\* was printed, and the LogEntry handed to the sender: its number, Message
\* and Fields
NoLog ==
  [logger |-> 0, level |-> "", message |-> <<>>, fields |-> NilFields,
   verdict |-> "none", diagnostic |-> "none", printed |-> FALSE, entry |-> 0,
   entryMessage |-> <<>>, entryFields |-> NilFields]

(* --------------------------- field formatting -------------------------- *)
\* A field value is an opaque token: one that json.Marshal accepts, or
\* FuncValue, one it rejects (a func, a channel); SprintOfFunc is what
\* fmt.Sprint prints for FuncValue, a string.
JsonValues == {"1", "2", "3", "4"}
FuncValue == "func"
SprintOfFunc == "0xfunc"

\* formatting.go:49-52
isJSONSerializable(value) == value # FuncValue

\* formatting.go:54-64
convertToString(value) ==
  IF isJSONSerializable(value) THEN value ELSE SprintOfFunc

\* FormatMessage (formatting.go:11-17)
Ellipsis == <<".", ".", ".">>
FormatMessage(message) ==
  IF Len(TrimSpace(message)) > defaultMaxMessageLength
    THEN SubSeq(TrimSpace(message), 1, defaultMaxMessageLength - 3) \o Ellipsis
    ELSE TrimSpace(message)

\* the value EnsureFields stores for a value (formatting.go:31-35)
FormattedValue(value) ==
  IF isJSONSerializable(value) THEN value ELSE convertToString(value)

\* the key EnsureFields stores for a key (formatting.go:26)
FormattedKeyUntrimmed(key) == key

FormattedKey(key) == TrimSpace(key)

\* EnsureFields (formatting.go:19-39): the maps a call can return.  The
\* range over a Go map visits the keys in an unspecified order; of the keys
\* that trim to one key, the one visited last leaves its value.
EnsureFields(fields) ==
  IF fields.nil THEN {Map(<<>>)}
  ELSE LET keys == {FormattedKey(key) : key \in DOMAIN fields.kv} \ {<<>>}
           lastVisited ==
             {f \in [keys -> DOMAIN fields.kv] :
                \A key \in keys : FormattedKey(f[key]) = key}
       IN  {Map([key \in keys |-> FormattedValue(fields.kv[f[key]])]) :
              f \in lastVisited}

\* the map after "for key, value := range src { dst[key] = value }"
OverlayKeepsBase(dst, src) ==
  [key \in DOMAIN dst \cup DOMAIN src |->
     IF key \in DOMAIN dst THEN dst[key] ELSE src[key]]

Overlay(dst, src) ==
  [key \in DOMAIN dst \cup DOMAIN src |->
     IF key \in DOMAIN src THEN src[key] ELSE dst[key]]

\* MergeFields (formatting.go:41-47): the maps a call can return
MergeFields(base, additional) ==
  {Map(Overlay(result.kv, formatted.kv)) :
     result \in EnsureFields(base), formatted \in EnsureFields(additional)}

NoFormat ==
  [op |-> "none", base |-> NilFields, additional |-> NilFields,
   result |-> NilFields]

(* ------------------------------- Init ---------------------------------- *)
\* NewSender (sender.go:33-52): empty queue, open stop channel, minWorkers
\* tokens in workerSem, wg.Add(1) for the batchProcessor goroutine.
Init ==
  /\ logQueue = <<>>
  /\ stopCh = FALSE
  /\ wg = 1
  /\ workerSem = minWorkers
  /\ onceDone = FALSE
  /\ onceMu = 0
  /\ tickerPc = "select"
  /\ flushPc = [f \in Flushers |-> "idle"]
  /\ sdPc = [c \in ShutdownCallers |-> "idle"]
  /\ logs = [d \in Drainers |-> <<>>]
  /\ tasks = {}
  /\ posted = {}
  /\ panicked = FALSE
  /\ nextId = 1
  /\ outcome = [e \in EntryIds |-> "none"]
  /\ lateShutdown = {}
  /\ sdSnapshot = {}
  /\ finalRuns = 0
  /\ lastDelivery = NoDelivery
  /\ clock = NanosPerSecond - 1
  /\ timestampMu = 0
  /\ lastTimestampNs = 0
  /\ tsPc = [c \in TsCallers |-> "idle"]
  /\ tsResult = [c \in TsCallers |-> <<0, 0>>]
  /\ issued = <<>>
  /\ returned = <<>>
  /\ logger = NoLogger
  /\ senderRegistry = 1
  /\ lastLog = NoLog
  /\ loggers = <<>>
  /\ lastFormat = NoFormat
  /\ zapCore = NoZapCore
  /\ lastEnabled = NoEnabled
  /\ lastWrite = NoWrite

(* ------------------------------ AddLog --------------------------------- *)
\* The select of AddLog (sender.go:55-60): the send case is ready when the
\* buffer has room, the stop case when stopCh is closed; Go picks among the
\* ready cases at random and takes default only when none is ready.
AddLogOutcomesBlocking(q, stopped) ==
  (IF Len(q) < queueCapacity THEN {"enqueued"} ELSE {})
    \cup (IF stopped THEN {"discarded"} ELSE {})

AddLogOutcomesUnbounded(q, stopped) ==
  {"enqueued"} \cup (IF stopped THEN {"discarded"} ELSE {})

AddLogOutcomes(q, stopped) ==
  LET ready == (IF Len(q) < queueCapacity THEN {"enqueued"} ELSE {})
                 \cup (IF stopped THEN {"discarded"} ELSE {})
  IN  IF ready = {} THEN {"dropped"} ELSE ready

\* AddLog on the sender alone
AddLogEntry(limit) ==
  /\ ~panicked
  /\ nextId <= limit
  /\ \E o \in AddLogOutcomes(logQueue, stopCh) :
       /\ logQueue' = IF o = "enqueued" THEN Append(logQueue, nextId) ELSE logQueue
       /\ outcome' = [outcome EXCEPT ![nextId] = o]
  /\ lateShutdown' = IF SomeShutdownReturned
                       THEN lateShutdown \cup {nextId} ELSE lateShutdown
  /\ nextId' = nextId + 1
  /\ UNCHANGED <<stopCh, wg, workerSem, onceDone, onceMu, tickerPc, flushPc,
                 sdPc, logs, tasks, posted, panicked, sdSnapshot, finalRuns,
                 lastDelivery>>

\* a producer that holds the sender calls AddLog
AddLog(limit) == AddLogEntry(limit) /\ UNCHANGED <<tsVars, lgVars>>

(* ----------------------------- sendBatch ------------------------------- *)
\* loop condition of sendBatch (sender.go:94): i < batchSize, where i equals
\* the number of entries received so far
DrainLoopContinuesUnbounded(n) == TRUE

DrainLoopContinuesNever(n) == n > batchSize

DrainLoopContinues(n) == n < batchSize

\* sender.go:104
BatchIsEmptyOffByOne(batch) == Len(batch) <= 1

BatchIsEmptyNever(batch) == FALSE

BatchIsEmpty(batch) == Len(batch) = 0

\* logs = append(logs, log) (sender.go:97)
AppendLogInFront(batch, log) == <<log>> \o batch

AppendLog(batch, log) == Append(batch, log)

\* the queue after the receive log := <-s.logQueue (sender.go:96)
QueueAfterReceiveKeepsHead(queue) == queue

QueueAfterReceive(queue) == Tail(queue)

\* One iteration of the drain loop (sender.go:94-101) by drainer d: a
\* receive when the loop condition holds and the queue has an entry,
\* otherwise the jump to "send".
DrainReceives(d) == DrainLoopContinues(Len(logs[d])) /\ Len(logQueue) > 0

DrainGoesOn(d) == DrainReceives(d) /\ DrainLoopContinues(Len(logs[d]) + 1)

\* The loop is left with nothing to send: sendBatch returns (sender.go:104-106)
DrainReturns(d) == ~DrainReceives(d) /\ BatchIsEmpty(logs[d])

\* where sendBatch stands after the iteration: back in the loop, at the
\* dispatch, or returned to its caller (rest)
AfterDrain(d, rest) ==
  IF DrainGoesOn(d) THEN "drain" ELSE IF DrainReturns(d) THEN rest ELSE "send"

DrainStep(d) ==
  /\ ~panicked
  /\ IF DrainReceives(d)
       THEN /\ logs' = [logs EXCEPT ![d] = AppendLog(@, Head(logQueue))]
            /\ logQueue' = QueueAfterReceive(logQueue)
       ELSE /\ logs' = [logs EXCEPT ![d] = IF DrainReturns(d) THEN <<>> ELSE @]
            /\ UNCHANGED logQueue
  /\ UNCHANGED <<stopCh, wg, workerSem, onceDone, onceMu, tasks, posted,
                 panicked, nextId, outcome, lateShutdown, sdSnapshot,
                 finalRuns, lastDelivery, tsVars, lgVars>>

\* The dispatch of a non-empty batch (sender.go:108-123): a delivery
\* goroutine, through the gate when a token can be received from workerSem
\* at once and outside it otherwise; wg.Add(1) on both paths.
\* the case <-s.workerSem of the dispatch select (sender.go:109) is ready
\* when the channel holds a token
GateAdmitsAlways(sem) == TRUE

GateAdmits(sem) == sem > 0

\* s.wg.Add(1), on the gated path (sender.go:110) and on the default path
\* (sender.go:118)
WgAddGatedOnly(n, admitted) == IF admitted THEN n + 1 ELSE n

WgAdd(n, admitted) == n + 1

\* the dispatch select has a default case (sender.go:116): it never waits
\* for a token
DispatchReadyWithToken(sem) == sem > 0

DispatchReady(sem) == TRUE

SendStep(d) ==
  /\ ~panicked
  /\ DispatchReady(workerSem)
  /\ tasks' = tasks \cup {[batch |-> logs[d], gated |-> GateAdmits(workerSem)]}
  /\ workerSem' = IF GateAdmits(workerSem) THEN workerSem - 1 ELSE workerSem
  /\ wg' = WgAdd(wg, GateAdmits(workerSem))
  /\ logs' = [logs EXCEPT ![d] = <<>>]
  /\ UNCHANGED <<logQueue, stopCh, onceDone, onceMu, posted, panicked, nextId,
                 outcome, lateShutdown, sdSnapshot, finalRuns, lastDelivery,
                 tsVars, lgVars>>

\* the gate when a delivery goroutine ends: the deferred send of a gated
\* one (sender.go:113) puts a token back, and waits while the channel is
\* full; one started on the default path sends nothing
SemAfterDoneAlways(sem, gated) == sem + 1

SemAfterDone(sem, gated) == IF gated THEN sem + 1 ELSE sem

ReleaseReady(sem, gated) == gated => sem < maxWorkers

\* A delivery goroutine runs sendHTTPRequest and ends (sender.go:111-122):
\* a gated one puts its token back, both call wg.Done().
TaskFinish(t) ==
  /\ ~panicked
  /\ t \in tasks
  /\ ReleaseReady(workerSem, t.gated)
  /\ tasks' = tasks \ {t}
  /\ posted' = posted \cup Range(t.batch)
  /\ workerSem' = SemAfterDone(workerSem, t.gated)
  /\ wg' = wg - 1
  /\ UNCHANGED <<logQueue, stopCh, onceDone, onceMu, tickerPc, flushPc, sdPc,
                 logs, nextId, outcome, lateShutdown,
                 sdSnapshot, finalRuns, tsVars, lgVars>>

(* --------------------------- batchProcessor ---------------------------- *)
\* sender.go:81-88: both cases of the select may be ready after the stop.
TickerTick ==
  /\ tickerPc = "select"
  /\ DrainStep(Ticker)
  /\ tickerPc' = AfterDrain(Ticker, "select")
  /\ UNCHANGED <<flushPc, sdPc>>

TickerStop ==
  /\ ~panicked
  /\ tickerPc = "select"
  /\ stopCh
  /\ tickerPc' = "exited"
  /\ wg' = wg - 1
  /\ UNCHANGED <<logQueue, stopCh, workerSem, onceDone, onceMu, flushPc, sdPc,
                 logs, tasks, posted, panicked, nextId, outcome, lateShutdown,
                 sdSnapshot, finalRuns, lastDelivery, tsVars, lgVars>>

TickerDrain ==
  /\ tickerPc = "drain"
  /\ DrainStep(Ticker)
  /\ tickerPc' = AfterDrain(Ticker, "select")
  /\ UNCHANGED <<flushPc, sdPc>>

TickerSend ==
  /\ tickerPc = "send"
  /\ SendStep(Ticker)
  /\ tickerPc' = "select"
  /\ UNCHANGED <<flushPc, sdPc>>

(* -------------------------------- Flush -------------------------------- *)
\* Flush (sender.go:63-65) up to the first iteration of the drain loop
FlushCall(f) ==
  /\ flushPc[f] = "idle"
  /\ DrainStep(<<"flush", f>>)
  /\ flushPc' = [flushPc EXCEPT ![f] = AfterDrain(<<"flush", f>>, "idle")]
  /\ UNCHANGED <<tickerPc, sdPc>>

FlushDrain(f) ==
  /\ flushPc[f] = "drain"
  /\ DrainStep(<<"flush", f>>)
  /\ flushPc' = [flushPc EXCEPT ![f] = AfterDrain(<<"flush", f>>, "idle")]
  /\ UNCHANGED <<tickerPc, sdPc>>

FlushSend(f) ==
  /\ flushPc[f] = "send"
  /\ SendStep(<<"flush", f>>)
  /\ flushPc' = [flushPc EXCEPT ![f] = "idle"]
  /\ UNCHANGED <<tickerPc, sdPc>>

(* ------------------------------ Shutdown ------------------------------- *)
\* sync.Once: the body runs only while done is unset
OnceShouldRunAlways(done) == TRUE

OnceShouldRun(done) == ~done

\* wg.Wait() returns when the counter is zero (sender.go:71)
WgWaitReturnsAtOnce(n) == TRUE

WgWaitReturns(n) == n = 0

\* shutdownOnce.Do (sender.go:68) entered by caller c with the Once's lock
\* free: a caller that finds the body already run returns; otherwise it
\* takes the lock and starts the body with close(s.stopCh) (sender.go:69).
\* Closing a closed channel panics.
OnceEnter(c) ==
  IF OnceShouldRun(onceDone)
    THEN /\ onceMu' = c
         /\ IF stopCh
              THEN panicked' = TRUE /\ UNCHANGED stopCh
              ELSE stopCh' = TRUE /\ UNCHANGED panicked
         /\ sdPc' = [sdPc EXCEPT ![c] = "drain"]
    ELSE /\ sdPc' = [sdPc EXCEPT ![c] = "returned"]
         /\ UNCHANGED <<onceMu, stopCh, panicked>>

ShutdownCall(c) ==
  /\ ~panicked
  /\ sdPc[c] = "idle"
  /\ sdSnapshot' = IF \A o \in ShutdownCallers : sdPc[o] = "idle"
                     THEN Range(logQueue) ELSE sdSnapshot
  /\ IF onceMu = 0
       THEN OnceEnter(c)
       ELSE /\ sdPc' = [sdPc EXCEPT ![c] = "blocked"]
            /\ UNCHANGED <<onceMu, stopCh, panicked>>
  /\ UNCHANGED <<logQueue, wg, workerSem, onceDone, tickerPc, flushPc, logs,
                 tasks, posted, nextId, outcome, lateShutdown,
                 finalRuns, lastDelivery, tsVars, lgVars>>

\* a caller that waited for the Once's lock gets it
ShutdownUnblock(c) ==
  /\ ~panicked
  /\ sdPc[c] = "blocked"
  /\ onceMu = 0
  /\ OnceEnter(c)
  /\ UNCHANGED <<logQueue, wg, workerSem, onceDone, tickerPc, flushPc, logs,
                 tasks, posted, nextId, outcome, lateShutdown,
                 sdSnapshot, finalRuns, lastDelivery, tsVars, lgVars>>

ShutdownDrain(c) ==
  /\ sdPc[c] = "drain"
  /\ DrainStep(<<"shutdown", c>>)
  /\ sdPc' = [sdPc EXCEPT ![c] = AfterDrain(<<"shutdown", c>>, "wait")]
  /\ UNCHANGED <<tickerPc, flushPc>>

ShutdownSend(c) ==
  /\ sdPc[c] = "send"
  /\ SendStep(<<"shutdown", c>>)
  /\ sdPc' = [sdPc EXCEPT ![c] = "wait"]
  /\ UNCHANGED <<tickerPc, flushPc>>

\* s.wg.Wait() returns (sender.go:71); the body is over, the Once marks it
\* done and releases its lock, and Shutdown returns.
ShutdownWait(c) ==
  /\ ~panicked
  /\ sdPc[c] = "wait"
  /\ WgWaitReturns(wg)
  /\ sdPc' = [sdPc EXCEPT ![c] = "returned"]
  /\ onceDone' = TRUE
  /\ onceMu' = 0
  /\ finalRuns' = finalRuns + 1
  /\ UNCHANGED <<logQueue, stopCh, wg, workerSem, tickerPc, flushPc, logs,
                 tasks, posted, panicked, nextId, outcome, lateShutdown,
                 sdSnapshot, lastDelivery, tsVars, lgVars>>

\* a delivery ends, whatever its HTTP exchange was
DeliveryDone ==
  \E t \in tasks : TaskFinish(t) /\ UNCHANGED <<panicked, lastDelivery>>

\* a delivery goroutine runs sendHTTPRequest on its batch against one of
\* the possible exchanges and ends; a panic in it ends the process
HttpDelivery ==
  \E t \in tasks : \E env \in HttpEnvs :
    LET r == sendHTTPRequest(t.batch, env)
    IN  /\ lastDelivery' =
             [batch |-> t.batch, status |-> env.status,
              parsable |-> env.body.parsable, rejected |-> env.body.rejected,
              path |-> r.path, posts |-> r.posts, diag |-> r.diag,
              errors |-> IF r.path = "rejected" THEN env.body.errors ELSE <<>>]
        /\ IF r.panics
             THEN /\ ~panicked
                  /\ panicked' = TRUE
                  /\ UNCHANGED <<logQueue, stopCh, wg, workerSem, onceDone,
                                 onceMu, tickerPc, flushPc, sdPc, logs, tasks,
                                 posted, nextId, outcome, lateShutdown,
                                 sdSnapshot, finalRuns, tsVars, lgVars>>
             ELSE TaskFinish(t) /\ UNCHANGED panicked

\* the goroutines that drain and dispatch, and the Shutdown callers
Drains ==
  \/ TickerTick
  \/ TickerStop
  \/ TickerDrain
  \/ TickerSend
  \/ \E f \in Flushers : FlushCall(f)
  \/ \E f \in Flushers : FlushDrain(f)
  \/ \E f \in Flushers : FlushSend(f)
  \/ \E c \in ShutdownCallers : ShutdownCall(c)
  \/ \E c \in ShutdownCallers : ShutdownUnblock(c)
  \/ \E c \in ShutdownCallers : ShutdownDrain(c)
  \/ \E c \in ShutdownCallers : ShutdownSend(c)
  \/ \E c \in ShutdownCallers : ShutdownWait(c)

\* the goroutines of the sender other than the producers
Background ==
  \/ Drains
  \/ DeliveryDone

Next ==
  \/ AddLog(MaxEntries)
  \/ Background

Spec == Init /\ [][Next]_vars

\* the same sender with more submissions than the queue can hold
NextOverflow ==
  \/ AddLog(MaxOverflowEntries)
  \/ Background

SpecOverflow == Init /\ [][NextOverflow]_vars

\* the same sender with the HTTP exchange of every delivery drawn from
\* HttpEnvs and its outcome kept in lastDelivery
NextDelivery ==
  \/ AddLog(MaxDeliveryEntries)
  \/ Drains
  \/ HttpDelivery

SpecDelivery == Init /\ [][NextDelivery]_vars

\* Scheduling: the ticker fires every batchInterval, started goroutines and
\* calls keep running, every HTTP exchange ends (httpTimeout).  Nothing
\* obliges a producer to log, or anyone to call Flush or Shutdown.
Fairness ==
  /\ WF_vars(TickerTick)
  /\ WF_vars(TickerDrain)
  /\ WF_vars(TickerSend)
  /\ WF_vars(TickerStop)
  /\ WF_vars(DeliveryDone)
  /\ \A f \in Flushers : WF_vars(FlushDrain(f)) /\ WF_vars(FlushSend(f))
  /\ \A c \in ShutdownCallers :
       /\ WF_vars(ShutdownUnblock(c))
       /\ WF_vars(ShutdownDrain(c))
       /\ WF_vars(ShutdownSend(c))
       /\ WF_vars(ShutdownWait(c))

FairSpec == Spec /\ Fairness

\* Producers that never stop: a further AddLog whose entry takes the number
\* of an earlier entry that is gone (delivered, discarded or dropped), so
\* that an unbounded run of submissions stays within finitely many states.
AddLogAgain ==
  /\ ~panicked
  /\ \E e \in 1..MaxChurnEntries :
       /\ outcome[e] # "none"
       /\ Occurrences(e) = 0
       /\ \E o \in AddLogOutcomes(logQueue, stopCh) :
            /\ logQueue' = IF o = "enqueued" THEN Append(logQueue, e) ELSE logQueue
            /\ outcome' = [outcome EXCEPT ![e] = o]
       /\ posted' = posted \ {e}
       /\ lateShutdown' = IF SomeShutdownReturned
                            THEN lateShutdown \cup {e} ELSE lateShutdown \ {e}
  /\ UNCHANGED <<stopCh, wg, workerSem, onceDone, onceMu, tickerPc, flushPc,
                 sdPc, logs, tasks, panicked, nextId, sdSnapshot, finalRuns,
                 lastDelivery, tsVars, lgVars>>

NextChurn ==
  \/ AddLog(MaxChurnEntries)
  \/ AddLogAgain
  \/ Background

\* Every delivery ends (httpTimeout bounds sendHTTPRequest, sender.go:126-178).
\* The select of batchProcessor picks at random among its ready cases
\* (sender.go:81-88): with stopCh closed the stop case is ready at every
\* select, so it is not passed over for ever.  wg.Wait (sender.go:71)
\* returns once the counter is zero at some moment while it waits: a
\* counter that is zero again and again releases it.
FairSpecChurn ==
  /\ Init /\ [][NextChurn]_vars
  /\ Fairness
  /\ \A t \in {[batch |-> b, gated |-> g] :
                 b \in UNION {[1..n -> 1..MaxChurnEntries] : n \in 1..batchSize},
                 g \in BOOLEAN} :
       WF_vars(TaskFinish(t) /\ UNCHANGED <<panicked, lastDelivery>>)
  /\ SF_vars(TickerStop)
  /\ \A c \in ShutdownCallers : SF_vars(ShutdownWait(c))

(* ------------------------ timestamp generator -------------------------- *)
\* timestamp.go formatTimestamp: the text "2006-01-02T15:04:05.000000000Z"
\* of a nanosecond count, kept as its two fixed-width parts <<whole seconds,
\* nanoseconds within the second>>; texts compare part by part, as strings
\* of that layout do.
formatTimestamp(timestampNs) ==
  <<timestampNs \div NanosPerSecond, timestampNs % NanosPerSecond>>

TsLess(a, b) == a[1] < b[1] \/ (a[1] = b[1] /\ a[2] < b[2])

\* timestamp.go GenerateUniqueTimestamp, the value issued for a clock
\* reading and the last issued value
NextTimestampNsStrictLess(currentNs, last) ==
  IF currentNs < last THEN last + 1 ELSE currentNs

NextTimestampNs(currentNs, last) ==
  IF currentNs <= last THEN last + 1 ELSE currentNs

\* timestampMu.Lock()
TsLock(c) ==
  /\ tsPc[c] = "idle"
  /\ Len(issued) < MaxTsCalls
  /\ timestampMu = 0
  /\ timestampMu' = c
  /\ tsPc' = [tsPc EXCEPT ![c] = "locked"]
  /\ UNCHANGED <<clock, lastTimestampNs, tsResult, issued, returned, senderVars, lgVars>>

\* the body under the lock: read the clock, bump, store, format
TsGenerate(c) ==
  /\ tsPc[c] = "locked"
  /\ LET currentNs == NextTimestampNs(clock, lastTimestampNs)
     IN  /\ lastTimestampNs' = currentNs
         /\ tsResult' = [tsResult EXCEPT ![c] = formatTimestamp(currentNs)]
         /\ issued' = Append(issued, formatTimestamp(currentNs))
  /\ tsPc' = [tsPc EXCEPT ![c] = "unlock"]
  /\ UNCHANGED <<clock, timestampMu, returned, senderVars, lgVars>>

\* the deferred timestampMu.Unlock()
TsUnlock(c) ==
  /\ tsPc[c] = "unlock"
  /\ timestampMu' = 0
  /\ tsPc' = [tsPc EXCEPT ![c] = "return"]
  /\ UNCHANGED <<clock, lastTimestampNs, tsResult, issued, returned, senderVars, lgVars>>

\* the call returns its value to the caller
TsReturn(c) ==
  /\ tsPc[c] = "return"
  /\ returned' = Append(returned, tsResult[c])
  /\ tsPc' = [tsPc EXCEPT ![c] = "idle"]
  /\ UNCHANGED <<clock, timestampMu, lastTimestampNs, tsResult, issued, senderVars, lgVars>>

\* the wall clock advances, or is set back
ClockChange ==
  /\ \E t \in ClockValues : t # clock /\ clock' = t
  /\ UNCHANGED <<timestampMu, lastTimestampNs, tsPc, tsResult, issued, returned,
                 senderVars, lgVars>>

NextTs ==
  \/ \E c \in TsCallers : TsLock(c)
  \/ \E c \in TsCallers : TsGenerate(c)
  \/ \E c \in TsCallers : TsUnlock(c)
  \/ \E c \in TsCallers : TsReturn(c)
  \/ ClockChange

SpecTs == Init /\ [][NextTs]_vars

\* Concurrent producers in LogBullLogger.log (logger.go:118-126): each
\* takes the Timestamp of its entry from GenerateUniqueTimestamp and then
\* hands the entry to AddLog, with nothing held in between.  An entry is
\* named by its timestamp; `returned` is the order of the AddLog calls.
LogSubmit(c) ==
  /\ ~panicked
  /\ tsPc[c] = "return"
  /\ returned' = Append(returned, tsResult[c])
  /\ tsPc' = [tsPc EXCEPT ![c] = "idle"]
  /\ \E o \in AddLogOutcomes(logQueue, stopCh) :
       logQueue' = IF o = "enqueued" THEN Append(logQueue, tsResult[c])
                                     ELSE logQueue
  /\ UNCHANGED <<stopCh, wg, workerSem, onceDone, onceMu, tickerPc, flushPc,
                 sdPc, logs, tasks, posted, panicked, nextId, outcome,
                 lateShutdown, sdSnapshot, finalRuns, lastDelivery, clock,
                 timestampMu, lastTimestampNs, tsResult, issued, lgVars>>

NextProducers ==
  \/ \E c \in TsCallers : TsLock(c)
  \/ \E c \in TsCallers : TsGenerate(c)
  \/ \E c \in TsCallers : TsUnlock(c)
  \/ \E c \in TsCallers : LogSubmit(c)
  \/ ClockChange
  \/ TickerTick
  \/ TickerDrain
  \/ TickerSend
  \/ \E f \in Flushers : FlushCall(f)
  \/ \E f \in Flushers : FlushDrain(f)
  \/ \E f \in Flushers : FlushSend(f)
  \/ DeliveryDone

SpecProducers == Init /\ [][NextProducers]_vars

(* ----------------------- standalone logger: calls ---------------------- *)
\* The values given to NewLogger.  Each set is listed by what the value is:
\* absent, well formed, or malformed.
Pad(str) == <<" ">> \o str \o <<"\t", " ">>
ValidUuid ==
  [i \in 1..UuidLength |->
     IF i \in HyphenPositions THEN "-" ELSE IF i % 2 = 0 THEN "a" ELSE "1"]
AbsentProjectIDs == {<<>>, <<" ">>}
WellFormedProjectIDs == {ValidUuid, Pad(ValidUuid), [ValidUuid EXCEPT ![1] = "F"]}
MalformedProjectIDs ==
  {<<"i", "n", "v", "a", "l", "i", "d">>,
   [ValidUuid EXCEPT ![1] = "k"],
   [ValidUuid EXCEPT ![9] = "a"],
   SubSeq(ValidUuid, 1, UuidLength - 1),
   ValidUuid \o <<"a">>}

HttpH == <<"h", "t", "t", "p", ":", "/", "/", "h">>
AbsentHosts == {<<>>, <<" ", " ">>}
WellFormedHosts ==
  {HttpH, Pad(HttpH), HttpH \o <<"/", "p">>,
   <<"h", "t", "t", "p", "s", ":", "/", "/", "h", ":", "9">>}
MalformedHosts ==
  {<<"i", "n", "v", "a", "l", "i", "d">>,
   <<"f", "t", "p", ":", "/", "/", "h">>,
   <<"h", "t", "t", "p", ":", "/", "/">>,
   <<"h", "t", "t", "p", ":", "h">>,
   <<"/", "/", "h">>,
   <<":", "/", "/", "h">>,
   <<"h", ":", "9">>,
   <<"h", "t", "t", "p", ":", "/", "/", "h", " ", "h">>}

Key10 == <<"t", "e", "s", "t", "-", "a", "p", "i", "_", "k", ".", "1">>
AbsentAPIKeys == {<<>>, <<" ">>}
WellFormedAPIKeys == {Key10, Pad(Key10), SubSeq(Key10, 1, minApiKeyLen)}
MalformedAPIKeys ==
  {SubSeq(Key10, 1, minApiKeyLen - 1),
   SubSeq(Key10, 1, minApiKeyLen - 1) \o <<"!">>,
   <<"t", "e", "s", "t", " ">> \o Key10}

Configs ==
  [ProjectID : AbsentProjectIDs \cup WellFormedProjectIDs \cup MalformedProjectIDs,
   Host : AbsentHosts \cup WellFormedHosts \cup MalformedHosts,
   APIKey : AbsentAPIKeys \cup WellFormedAPIKeys \cup MalformedAPIKeys,
   LogLevel : {"", "WARNING"}]

\* NewSender (sender.go:33-52) called by NewLogger
NewSender ==
  /\ logQueue' = <<>>
  /\ stopCh' = FALSE
  /\ workerSem' = minWorkers
  /\ senderRegistry' = senderRegistry + 1
  /\ wg' = 1
  /\ tickerPc' = "select"

\* the state in which no logger and no sender has been made
InitNoLogger ==
  /\ logQueue = <<>>
  /\ stopCh = FALSE
  /\ wg = 0
  /\ workerSem = 0
  /\ onceDone = FALSE
  /\ onceMu = 0
  /\ tickerPc = "none"
  /\ flushPc = [f \in Flushers |-> "idle"]
  /\ sdPc = [c \in ShutdownCallers |-> "idle"]
  /\ logs = [d \in Drainers |-> <<>>]
  /\ tasks = {}
  /\ posted = {}
  /\ panicked = FALSE
  /\ nextId = 1
  /\ outcome = [e \in EntryIds |-> "none"]
  /\ lateShutdown = {}
  /\ sdSnapshot = {}
  /\ finalRuns = 0
  /\ lastDelivery = NoDelivery
  /\ clock = NanosPerSecond - 1
  /\ timestampMu = 0
  /\ lastTimestampNs = 0
  /\ tsPc = [c \in TsCallers |-> "idle"]
  /\ tsResult = [c \in TsCallers |-> <<0, 0>>]
  /\ issued = <<>>
  /\ returned = <<>>
  /\ logger = NoLogger
  /\ senderRegistry = 0
  /\ lastLog = NoLog
  /\ loggers = <<>>
  /\ lastFormat = NoFormat
  /\ zapCore = NoZapCore
  /\ lastEnabled = NoEnabled
  /\ lastWrite = NoWrite

\* a call of NewLogger (logger.go:21-55)
NewLoggerCall ==
  /\ ~panicked
  /\ logger = NoLogger
  /\ \E config \in Configs :
       /\ logger' = NewLogger(config)
       /\ IF NewLogger(config).sender
            THEN /\ NewSender
                 /\ loggers' = <<RootLogger(senderRegistry + 1,
                                            NewLogger(config).minLevel)>>
            ELSE UNCHANGED <<logQueue, stopCh, workerSem, senderRegistry, wg,
                             tickerPc, loggers>>
  /\ UNCHANGED <<onceDone, onceMu, flushPc, sdPc, logs, tasks, posted, panicked,
                 nextId, outcome, lateShutdown, sdSnapshot, finalRuns,
                 lastDelivery, tsVars, lastLog, lastFormat, zapVars>>

NextNewLogger ==
  \/ NewLoggerCall
  \/ TickerTick

SpecNewLogger == InitNoLogger /\ [][NextNewLogger]_vars

\* The arguments of the logging calls
LogMessages ==
  {<<>>, <<" ", "\t">>, <<"m">>, <<" ", "m", " ">>,
   <<"m", "m", "m", "m", "m">>, <<" ", "m", "m", "m", "m">>}
FieldSets ==
  {NilFields,
   Map(<<>>),
   Map(<<"a">> :> "1"),
   Map((<<"a">> :> "1") @@ (<<"b">> :> "2")),
   Map((<<"a">> :> "1") @@ (<<"b">> :> "2") @@ (<<"c">> :> "3")),
   Map(<<>> :> "1"),
   Map((<<"a">> :> "1") @@ (<<" ">> :> "2")),
   Map(<<"a", "a", "a", "a">> :> "1"),
   Map(<<" ", "a", "a", "a">> :> "1")}

\* a logging call: its arguments, and what ValidateLogMessage and
\* ValidateLogFields return for them
LogCalls ==
  {[level |-> l, message |-> m, fields |-> f,
    messageErr |-> ValidateLogMessage(m), fieldsErr |-> ValidateLogFields(f)] :
     l \in LogLevels, m \in LogMessages, f \in FieldSets}

\* LogBullLogger.log (logger.go:99-127): where the call ends
LogVerdictNoFilter(minLevel, call) ==
  IF call.messageErr # "nil" THEN "invalid log message"
  ELSE IF call.fieldsErr # "nil" THEN "invalid log fields"
  ELSE "logged"

LogVerdictFieldsUnchecked(minLevel, call) ==
  IF Priority(call.level) < Priority(minLevel) THEN "filtered"
  ELSE IF call.messageErr # "nil" THEN "invalid log message"
  ELSE "logged"

LogVerdict(minLevel, call) ==
  IF Priority(call.level) < Priority(minLevel) THEN "filtered"
  ELSE IF call.messageErr # "nil" THEN "invalid log message"
  ELSE IF call.fieldsErr # "nil" THEN "invalid log fields"
  ELSE "logged"

\* One call of Debug, Info, Warning, Error or Critical on logger l
\* (logger.go:57-75, 99-127): the level filter, the two validations with
\* their diagnostics on stderr, then the merge of the context with the
\* fields, the LogEntry with its formatted message, its timestamp and its
\* fields, the console line and sender.AddLog.
LoggerLog(limit) ==
  /\ ~panicked
  /\ logger.err = "nil"
  /\ \E l \in 1..Len(loggers), call \in LogCalls :
       LET verdict == LogVerdict(loggers[l].minLevel, call)
           currentNs == NextTimestampNs(clock, lastTimestampNs)
       IN  IF verdict = "logged"
             THEN /\ timestampMu = 0
                  /\ lastTimestampNs' = currentNs
                  /\ issued' = Append(issued, formatTimestamp(currentNs))
                  /\ returned' = Append(returned, formatTimestamp(currentNs))
                  /\ UNCHANGED <<clock, timestampMu, tsPc, tsResult>>
                  /\ \E mergedFields \in MergeFields(loggers[l].context,
                                                     call.fields) :
                       \E Fields \in EnsureFields(mergedFields) :
                         lastLog' =
                           [logger |-> l, level |-> call.level,
                            message |-> call.message, fields |-> call.fields,
                            verdict |-> verdict, diagnostic |-> "none",
                            printed |-> TRUE, entry |-> nextId,
                            entryMessage |-> FormatMessage(call.message),
                            entryFields |-> Fields]
                  /\ AddLogEntry(limit)
             ELSE /\ lastLog' =
                       [logger |-> l, level |-> call.level,
                        message |-> call.message, fields |-> call.fields,
                        verdict |-> verdict,
                        diagnostic |-> IF verdict = "filtered"
                                         THEN "none" ELSE verdict,
                        printed |-> FALSE, entry |-> 0,
                        entryMessage |-> <<>>, entryFields |-> NilFields]
                  /\ UNCHANGED <<senderVars, tsVars>>
  /\ UNCHANGED <<logger, senderRegistry, loggers, lastFormat, zapVars>>

\* the loggers NewLogger makes from a well-formed Config
LoggerLevels == {"", "WARNING"}
InitLogger ==
  /\ logQueue = <<>>
  /\ stopCh = FALSE
  /\ wg = 1
  /\ workerSem = minWorkers
  /\ onceDone = FALSE
  /\ onceMu = 0
  /\ tickerPc = "select"
  /\ flushPc = [f \in Flushers |-> "idle"]
  /\ sdPc = [c \in ShutdownCallers |-> "idle"]
  /\ logs = [d \in Drainers |-> <<>>]
  /\ tasks = {}
  /\ posted = {}
  /\ panicked = FALSE
  /\ nextId = 1
  /\ outcome = [e \in EntryIds |-> "none"]
  /\ lateShutdown = {}
  /\ sdSnapshot = {}
  /\ finalRuns = 0
  /\ lastDelivery = NoDelivery
  /\ clock = NanosPerSecond - 1
  /\ timestampMu = 0
  /\ lastTimestampNs = 0
  /\ tsPc = [c \in TsCallers |-> "idle"]
  /\ tsResult = [c \in TsCallers |-> <<0, 0>>]
  /\ issued = <<>>
  /\ returned = <<>>
  /\ logger \in {NewLogger([ProjectID |-> ValidUuid, Host |-> HttpH,
                            APIKey |-> <<>>, LogLevel |-> l]) :
                   l \in LoggerLevels}
  /\ senderRegistry = 1
  /\ lastLog = NoLog
  /\ loggers = <<RootLogger(senderRegistry, logger.minLevel)>>
  /\ lastFormat = NoFormat
  /\ zapCore = NoZapCore
  /\ lastEnabled = NoEnabled
  /\ lastWrite = NoWrite

NextLogger ==
  \/ LoggerLog(MaxLoggerEntries)
  \/ TickerTick
  \/ TickerDrain
  \/ TickerSend
  \/ DeliveryDone

SpecLogger == InitLogger /\ [][NextLogger]_vars

(* ------------------------ field formatting: calls ---------------------- *)
\* The maps given to EnsureFields and MergeFields: nil, and every map of at
\* most MaxMapSize keys; among the keys are the empty one, a blank one and
\* two that trim to the same key.
FieldKeys == {<<>>, <<" ">>, <<"a">>, <<" ", "a">>, <<"b">>, <<"c">>}
FieldValues == JsonValues \cup {FuncValue}
FieldMaps ==
  {NilFields} \cup
  UNION {{Map(kv) : kv \in [keys -> FieldValues]} :
           keys \in {ks \in SUBSET FieldKeys : Cardinality(ks) <= MaxMapSize}}

\* a call of EnsureFields (formatting.go:19-39)
EnsureFieldsCall ==
  /\ lastFormat.op = "none"
  /\ \E fields \in FieldMaps :
       \E formatted \in EnsureFields(fields) :
         lastFormat' = [op |-> "EnsureFields", base |-> fields,
                        additional |-> NilFields, result |-> formatted]
  /\ UNCHANGED <<senderVars, tsVars, logger, senderRegistry, lastLog, loggers,
                 zapVars>>

\* a call of EnsureFields on the map the latest call returned
EnsureFieldsAgain ==
  /\ lastFormat.op \in {"EnsureFields", "MergeFields"}
  /\ \E formatted \in EnsureFields(lastFormat.result) :
       lastFormat' = [op |-> "EnsureFieldsAgain", base |-> lastFormat.result,
                      additional |-> NilFields, result |-> formatted]
  /\ UNCHANGED <<senderVars, tsVars, logger, senderRegistry, lastLog, loggers,
                 zapVars>>

\* a call of MergeFields (formatting.go:41-47)
MergeFieldsCall ==
  /\ lastFormat.op = "none"
  /\ \E base \in FieldMaps, additional \in FieldMaps :
       \E result \in MergeFields(base, additional) :
         lastFormat' = [op |-> "MergeFields", base |-> base,
                        additional |-> additional, result |-> result]
  /\ UNCHANGED <<senderVars, tsVars, logger, senderRegistry, lastLog, loggers,
                 zapVars>>

NextEnsureFields ==
  \/ EnsureFieldsCall
  \/ EnsureFieldsAgain

SpecEnsureFields == Init /\ [][NextEnsureFields]_vars

NextMergeFields ==
  \/ MergeFieldsCall
  \/ EnsureFieldsAgain

SpecMergeFields == Init /\ [][NextMergeFields]_vars

(* ------------------------------ WithContext ---------------------------- *)
\* the contexts given to WithContext
ContextMaps ==
  {NilFields,
   Map(<<>>),
   Map(<<"a">> :> "1"),
   Map((<<"a">> :> "2") @@ (<<"b">> :> "3")),
   Map((<<" ", "a">> :> FuncValue) @@ (<<>> :> "4")),
   Map(<<"c">> :> "4")}

\* what MergeFields leaves in the map it was given as base: EnsureFields
\* copies into a fresh map (formatting.go:24), the base is only read
BaseAfterMergeAliased(base, merged) == merged

BaseAfterMerge(base, merged) == base

\* WithContext (logger.go:77-89) on logger p
WithContextCall ==
  /\ ~panicked
  /\ Len(loggers) \in 1..(MaxLoggers - 1)
  /\ \E p \in 1..Len(loggers), context \in ContextMaps :
       \E mergedContext \in MergeFields(loggers[p].context, context) :
         loggers' =
           Append([loggers EXCEPT
                     ![p].context = BaseAfterMerge(@, mergedContext)],
                  [sender |-> loggers[p].sender,
                   minLevel |-> loggers[p].minLevel,
                   context |-> mergedContext,
                   parent |-> p, given |-> context])
  /\ UNCHANGED <<senderVars, tsVars, logger, senderRegistry, lastLog,
                 lastFormat, zapVars>>

NextWithContext ==
  \/ WithContextCall

SpecWithContext == InitLogger /\ [][NextWithContext]_vars

\* the first logging call, on the logger NewLogger returned or on one of
\* the loggers derived from it with WithContext
FirstLoggerLog ==
  /\ lastLog = NoLog
  /\ LoggerLog(MaxLoggerEntries)

SpecContextLogger == InitLogger /\ [][WithContextCall \/ FirstLoggerLog]_vars

(* ------------------------------ zap adapter ---------------------------- *)
\* the Configs given to NewZapCore: with and without credentials, with a
\* malformed project ID, and every level
ZapConfigs ==
  [ProjectID : {<<>>, ValidUuid, <<"i", "n", "v", "a", "l", "i", "d">>},
   Host : {HttpH},
   APIKey : {<<>>},
   LogLevel : LogLevels \cup {""}]

\* a call of NewZapCore (zap.go:20-68)
NewZapCoreCall ==
  /\ ~panicked
  /\ zapCore = NoZapCore
  /\ \E config \in ZapConfigs :
       /\ zapCore' = NewZapCore(config)
       /\ IF NewZapCore(config).sender
            THEN NewSender
            ELSE UNCHANGED <<logQueue, stopCh, workerSem, senderRegistry, wg,
                             tickerPc>>
  /\ UNCHANGED <<onceDone, onceMu, flushPc, sdPc, logs, tasks, posted, panicked,
                 nextId, outcome, lateShutdown, sdSnapshot, finalRuns,
                 lastDelivery, tsVars, logger, lastLog, loggers, lastFormat,
                 lastEnabled, lastWrite>>

\* a call of ZapCore.Enabled (zap.go:70-72) on the core NewZapCore returned
ZapEnabledCall ==
  /\ ~panicked
  /\ zapCore.err = "nil"
  /\ \E level \in ZapLevels :
       lastEnabled' =
         [level |-> level, enabled |-> ZapEnabled(zapCore.minLevel, level)]
  /\ UNCHANGED <<senderVars, tsVars, logger, senderRegistry, lastLog, loggers,
                 lastFormat, zapCore, lastWrite>>

\* a call of ZapCore.Write (zap.go:94-116): nothing without a sender;
\* otherwise the LogEntry with the converted level and its timestamp, and
\* sender.AddLog
ZapWrite(limit) ==
  /\ ~panicked
  /\ zapCore.err = "nil"
  /\ \E level \in ZapLevels :
       LET currentNs == NextTimestampNs(clock, lastTimestampNs)
       IN  IF zapCore.sender
             THEN /\ timestampMu = 0
                  /\ lastTimestampNs' = currentNs
                  /\ issued' = Append(issued, formatTimestamp(currentNs))
                  /\ returned' = Append(returned, formatTimestamp(currentNs))
                  /\ UNCHANGED <<clock, timestampMu, tsPc, tsResult>>
                  /\ lastWrite' = [level |-> level, sent |-> TRUE,
                                   entry |-> nextId,
                                   Level |-> convertZapLevel(level)]
                  /\ AddLogEntry(limit)
             ELSE /\ lastWrite' = [level |-> level, sent |-> FALSE,
                                   entry |-> 0, Level |-> ""]
                  /\ UNCHANGED <<senderVars, tsVars>>
  /\ UNCHANGED <<logger, senderRegistry, lastLog, loggers, lastFormat, zapCore,
                 lastEnabled>>

NextZap ==
  \/ NewZapCoreCall
  \/ ZapEnabledCall
  \/ ZapWrite(MaxLoggerEntries)

SpecZap == InitNoLogger /\ [][NextZap]_vars

(* ============================== claims ================================= *)

\* C1 (as stated): every returned timestamp is strictly greater than every
\* timestamp returned by a call that completed earlier, i.e. the timestamps
\* listed in call-completion order are strictly increasing.
C1_ReturnedInCompletionOrder ==
  \A i, j \in 1..Len(returned) : i < j => TsLess(returned[i], returned[j])

\* C1 (amended): every timestamp is strictly greater than every timestamp
\* generated earlier under the lock (the order in which the calls held
\* timestampMu), whatever the clock does, and so the returned timestamps
\* are pairwise distinct.
C1_IssuedInLockOrder ==
  /\ \A i, j \in 1..Len(issued) : i < j => TsLess(issued[i], issued[j])
  /\ \A i, j \in 1..Len(returned) : i # j => returned[i] # returned[j]

\* two calls have returned and the clock is behind the last issued value
C1_Witness ==
  /\ Len(returned) >= 2
  /\ clock < lastTimestampNs

\* C2: every batch handed to a delivery goroutine, and every batch being
\* formed by the ticker, a Flush or the Shutdown drain, has at most
\* batchSize entries.
C2_BatchWithinSize ==
  /\ \A t \in tasks : Len(t.batch) <= batchSize
  /\ \A d \in Drainers : Len(logs[d]) <= batchSize

\* a full batch was dispatched while an entry stayed behind in the queue
C2_Witness ==
  \E t \in tasks : Len(t.batch) = batchSize /\ Len(logQueue) > 0

\* C3: AddLog can always complete at once, and when it does exactly one of
\* three things has happened: the entry was appended to a queue that had
\* room, or it was discarded with the stop signal raised, or it was dropped
\* with the queue full (and the queue left as it was).
C3_AddLogNeverBlocks ==
  /\ [](nextId <= MaxOverflowEntries /\ ~panicked
          => ENABLED AddLog(MaxOverflowEntries))
  /\ [][nextId' = nextId + 1 =>
          \/ /\ outcome'[nextId] = "enqueued"
             /\ Len(logQueue) < queueCapacity
             /\ logQueue' = Append(logQueue, nextId)
          \/ /\ outcome'[nextId] = "discarded"
             /\ stopCh
             /\ logQueue' = logQueue
          \/ /\ outcome'[nextId] = "dropped"
             /\ Len(logQueue) = queueCapacity
             /\ logQueue' = logQueue]_vars

\* all three outcomes have happened
C3_Witness ==
  /\ IdsWith("enqueued") # {}
  /\ IdsWith("discarded") # {}
  /\ IdsWith("dropped") # {}

\* C4 (as stated): once the stop signal is raised, an AddLog never places
\* its entry in the queue.
C4_NoEnqueueAfterStop ==
  [][stopCh /\ nextId' = nextId + 1 => logQueue' = logQueue]_vars

\* C5 (as stated): when a Shutdown call has returned, every entry that was
\* in the queue when Shutdown was invoked has been through a delivery
\* goroutine that has finished.
C5_ShutdownDeliversQueued ==
  \A c \in ShutdownCallers : sdPc[c] = "returned" => sdSnapshot \subseteq posted

C7_ShutdownOnce ==
  /\ ~panicked
  /\ Cardinality({c \in ShutdownCallers : sdPc[c] \in {"drain", "send", "wait"}})
       + finalRuns <= 1
  /\ \A c \in ShutdownCallers : sdPc[c] = "returned" => stopCh /\ finalRuns = 1

\* every caller has called Shutdown and returned
C7_Witness ==
  /\ \A c \in ShutdownCallers : sdPc[c] = "returned"
  /\ finalRuns = 1

\* C8 (as stated): no entry passed to AddLog after a Shutdown call returned
\* is part of a batch sent over HTTP.
C8_NoDeliveryAfterShutdown == lateShutdown \cap posted = {}

\* C9: with n entries submitted and accepted and a Flush under way on an
\* active sender, all n entries end up in delivered batches (or the sender
\* stops being active); and no entry is ever held twice, or held again
\* once delivered, so the delivered batches count each entry once.
C9_FlushedEntriesDelivered ==
  /\ \A n \in 1..MaxEntries :
       (/\ nextId = n + 1
        /\ \A e \in 1..n : outcome[e] = "enqueued"
        /\ ~stopCh
        /\ \E f \in Flushers : flushPc[f] # "idle")
         ~> (stopCh \/ 1..n \subseteq posted)
  /\ [](\A e \in EntryIds :
          Occurrences(e) + (IF e \in posted THEN 1 ELSE 0) <= 1)

\* more entries than one batch were submitted, and a Flush has taken a
\* full batch and left an entry in the queue
C9_Witness ==
  /\ ~stopCh
  /\ nextId = batchSize + 2
  /\ \E f \in Flushers : flushPc[f] = "send" /\ Len(logs[<<"flush", f>>]) = batchSize
  /\ Len(logQueue) = 1

\* C10 (as stated): at most queueCapacity of the submitted entries are ever
\* delivered.
C10_AtMostCapacityDelivered == Cardinality(posted) <= queueCapacity

\* C10 (amended): the queue never holds more than queueCapacity entries, an
\* entry dropped on a full queue is never queued or delivered, and as long
\* as nothing has been received from the queue at most queueCapacity of
\* the submitted entries have been accepted.
C10_OverflowDropped ==
  /\ Len(logQueue) <= queueCapacity
  /\ IdsWith("dropped") \cap (Range(logQueue) \cup TaskIds \cup posted) = {}
  /\ ~Received => Cardinality(IdsWith("enqueued")) <= queueCapacity

\* an entry was dropped on the full queue and the accepted ones were delivered
C10_Witness ==
  /\ IdsWith("dropped") # {}
  /\ Cardinality(posted) = queueCapacity

\* C11 (as stated): the delivery goroutines of the sender running at the
\* same time never number more than maxWorkers.
C11_AtMostMaxWorkersRunning == Cardinality(tasks) <= maxWorkers

\* C11 (amended): the delivery goroutines that hold a token of the gate
\* never number more than maxWorkers (in fact no more than the minWorkers
\* tokens NewSender put in the gate), and the gate never holds a negative
\* number of tokens nor more than its capacity; goroutines started without
\* a token are not bounded.
C11_GatedWithinMaxWorkers ==
  /\ Cardinality({t \in tasks : t.gated}) <= minWorkers
  /\ minWorkers <= maxWorkers
  /\ workerSem >= 0
  /\ workerSem <= maxWorkers

\* the gate is empty, its token held by a running delivery, and more than
\* maxWorkers deliveries are running
C11_Witness ==
  /\ workerSem = 0
  /\ \E t \in tasks : t.gated
  /\ Cardinality(tasks) > maxWorkers

\* C12: a delivery issues at most one POST request for its batch, and a
\* batch whose delivery ended in a marshal, request, transport, read or
\* status failure is dropped: none of its entries is in the queue, in a
\* batch being formed or in a batch being delivered afterwards; nor is any
\* other entry whose delivery has ended.
C12_AtMostOnceDelivery ==
  /\ lastDelivery.posts <= 1
  /\ lastDelivery.path \in FailurePaths =>
       \A e \in Range(lastDelivery.batch) : e \in posted /\ Occurrences(e) = 0
  /\ \A e \in posted : Occurrences(e) = 0

\* a delivery failed after its one POST while another delivery is running
C12_Witness ==
  /\ lastDelivery.path \in {"transport", "read", "status"}
  /\ lastDelivery.posts = 1
  /\ tasks # {}

\* C13: after a success response with rejected > 0, the diagnostics are
\* exactly, in the order of the reported errors, one for each error whose
\* index lies in [0, batch length), naming the entry at that index of the
\* batch as dispatched; errors with an index out of range leave no trace,
\* nothing panics, the batch was posted once and none of its entries is
\* queued or dispatched again.
C13_RejectedEntriesReported ==
  lastDelivery.path = "rejected" =>
    LET sent == lastDelivery.batch
        inRange == SelectSeq(lastDelivery.errors,
                             LAMBDA x : x >= 0 /\ x < Len(sent))
    IN  /\ Len(lastDelivery.diag) = Len(inRange)
        /\ \A i \in 1..Len(inRange) :
             lastDelivery.diag[i] = <<inRange[i], sent[inRange[i] + 1]>>
        /\ ~panicked
        /\ lastDelivery.posts = 1
        /\ \A e \in Range(sent) : Occurrences(e) = 0

\* a batch of two entries was answered with two errors, the first out of
\* range and the second naming the second entry
C13_Witness ==
  /\ lastDelivery.path = "rejected"
  /\ Len(lastDelivery.batch) = 2
  /\ Len(lastDelivery.errors) = 2
  /\ lastDelivery.errors[1] \notin 0..1
  /\ lastDelivery.diag = <<<<1, lastDelivery.batch[2]>>>>

\* C14: the end of a delivery, whatever its outcome, panics nowhere and
\* changes nothing of the sender but the bookkeeping of that delivery
\* goroutine (the task is gone, the WaitGroup counts one less, a gated task
\* has put its token back): queue, stop signal, Once, ticker, Flush and
\* Shutdown callers and the batches being formed are as they were, so what
\* AddLog, Flush and Shutdown do next does not depend on the outcome.
C14_DeliveryOutcomeFrame ==
  [][lastDelivery' # lastDelivery =>
       /\ ~panicked'
       /\ UNCHANGED <<logQueue, stopCh, onceDone, onceMu, tickerPc, flushPc,
                      sdPc, logs, nextId, outcome>>
       /\ \E t \in tasks :
            /\ tasks' = tasks \ {t}
            /\ wg' = wg - 1
            /\ workerSem' = workerSem + (IF t.gated THEN 1 ELSE 0)]_vars

\* the first entry's delivery failed or was rejected, and the second entry
\* was accepted and dispatched all the same
C14_Witness ==
  /\ lastDelivery.batch = <<1>>
  /\ lastDelivery.path \in FailurePaths \cup {"rejected"}
  /\ outcome[2] = "enqueued"
  /\ 2 \in TaskIds

\* C15: with the ticker, the drains and the deliveries scheduled fairly,
\* and nobody obliged ever to call Flush or Shutdown, every entry accepted
\* into the queue of an active sender ends up in a dispatched batch (or the
\* sender stops being active).
C15_TickerDispatchesEventually ==
  \A e \in 1..MaxEntries :
    (outcome[e] = "enqueued" /\ ~stopCh) ~> (stopCh \/ e \in TaskIds \cup posted)

\* the ticker is about to dispatch a batch it drained from a queue that was
\* not full, with no Flush under way and the sender active
C15_Witness ==
  /\ ~stopCh
  /\ tickerPc = "send"
  /\ logs[Ticker] # <<>>
  /\ Len(logs[Ticker]) + Len(logQueue) < queueCapacity
  /\ \A f \in Flushers : flushPc[f] = "idle"

\* C16 (as stated): when a Flush call returns after dispatching the batch
\* it drained, the delivery of that batch has finished.
C16_FlushWaitsForDelivery ==
  [][\A f \in Flushers :
       flushPc[f] = "send" /\ flushPc'[f] = "idle" =>
         Range(logs[<<"flush", f>>]) \subseteq posted']_vars

\* C16 (amended): when a Flush call returns after draining a non-empty
\* batch, that batch has been handed to a newly started delivery goroutine
\* which the WaitGroup counts, on the gated path or outside it; the delivery
\* itself may still be running.
C16_FlushDispatchesBeforeReturn ==
  [][\A f \in Flushers :
       flushPc[f] = "send" /\ flushPc'[f] = "idle" =>
         /\ \E t \in tasks' \ tasks :
              /\ t.batch = logs[<<"flush", f>>]
              /\ tasks' = tasks \cup {t}
         /\ wg' = wg + 1
         /\ logs'[<<"flush", f>>] = <<>>]_vars

\* a Flush is about to dispatch its batch with no token in the gate
C16_Witness ==
  \E f \in Flushers :
    /\ flushPc[f] = "send"
    /\ logs[<<"flush", f>>] # <<>>
    /\ workerSem = 0

\* C17: in every batch, being formed or dispatched, by the ticker, a Flush
\* or the Shutdown drain and however their drains interleave, the entries
\* stand in the order in which they were accepted into the queue (entries
\* are numbered in that order); the queue itself is in that order too.
C17_BatchKeepsQueueOrder ==
  LET InOrder(seq) == \A i, j \in 1..Len(seq) : i < j => seq[i] < seq[j]
  IN  /\ InOrder(logQueue)
      /\ \A d \in Drainers : InOrder(logs[d])
      /\ \A t \in tasks : InOrder(t.batch)

\* two drains interleaved: a batch holding the first and the third entry
\* is still being delivered when the batch of the second entry, dispatched
\* separately, has already been through its delivery
C17_Witness ==
  /\ \E t \in tasks : t.batch = <<1, 3>>
  /\ 2 \in posted

\* C18 (as stated): NewLogger given a Config whose project ID or host is
\* absent returns no error and a logger without a sender, nothing is
\* queued and nothing panics.
C18_ConsoleOnlyWhenAbsent ==
  (logger # NoLogger
     /\ (logger.given.ProjectID \in AbsentProjectIDs
           \/ logger.given.Host \in AbsentHosts)) =>
    /\ logger.err = "nil"
    /\ ~logger.sender
    /\ logQueue = <<>>
    /\ ~panicked

\* C19: NewLogger given a malformed project ID, a malformed host URL or a
\* malformed API key returns an error and leaves no sender behind: no
\* registry entry, no ticker goroutine, nothing counted by the WaitGroup.
\* Given a well-formed project ID and host, bare or surrounded by
\* whitespace, and an API key that is well formed, empty or blank, it
\* returns no error and a logger with a registered sender.
C19_MalformedConfigRejected ==
  logger # NoLogger =>
    LET given == logger.given
    IN  /\ (given.ProjectID \in MalformedProjectIDs
              \/ given.Host \in MalformedHosts
              \/ given.APIKey \in MalformedAPIKeys) =>
             /\ logger.err \notin {"nil", "none"}
             /\ ~logger.sender
             /\ senderRegistry = 0
             /\ tickerPc = "none"
             /\ wg = 0
        /\ (given.ProjectID \in WellFormedProjectIDs
              /\ given.Host \in WellFormedHosts
              /\ given.APIKey \in AbsentAPIKeys \cup WellFormedAPIKeys) =>
             /\ logger.err = "nil"
             /\ logger.sender
             /\ senderRegistry = 1
             /\ tickerPc = "select"

\* NewLogger was given a padded project ID, a padded host and an API key
\* with a character outside the allowed set, and returned the API key error
C19_Witness ==
  /\ logger.given.ProjectID = Pad(ValidUuid)
  /\ logger.given.Host = Pad(HttpH)
  /\ logger.given.APIKey \in MalformedAPIKeys
  /\ logger.err = "invalid API key format"
  /\ senderRegistry = 0

\* C20 (as stated): a logging call with a blank message (empty or all
\* whitespace) or an invalid field set (too many fields, or a key that is
\* blank or too long once trimmed) leaves a diagnostic and hands no entry
\* to the sender.
C20_InvalidEntryDroppedWithDiagnostic ==
  LET Blank(str) == \A i \in 1..Len(str) : str[i] \in Whitespace
      Invalid(fields) ==
        /\ ~fields.nil
        /\ \/ Cardinality(DOMAIN fields.kv) > maxFieldsCount
           \/ \E key \in DOMAIN fields.kv :
                Blank(key) \/ Len(TrimSpace(key)) > maxFieldKeyLen
  IN  (lastLog.verdict # "none"
         /\ (Blank(lastLog.message) \/ Invalid(lastLog.fields))) =>
        /\ lastLog.diagnostic # "none"
        /\ lastLog.entry = 0
        /\ ~panicked

\* C20 (amended): a logging call with a blank message or an invalid field
\* set never hands an entry to the sender (the queue is as it was), prints
\* no console line and panics nowhere; it leaves a diagnostic exactly when
\* its level is not below the minimum level of the logger (a call below
\* that level returns before any validation), and that is the message
\* diagnostic if the message is blank.
C20_InvalidEntryNeverEnqueued ==
  /\ [](LET Blank(str) == \A i \in 1..Len(str) : str[i] \in Whitespace
            Invalid(fields) ==
              /\ ~fields.nil
              /\ \/ Cardinality(DOMAIN fields.kv) > maxFieldsCount
                 \/ \E key \in DOMAIN fields.kv :
                      Blank(key) \/ Len(TrimSpace(key)) > maxFieldKeyLen
        IN  (lastLog.verdict # "none"
               /\ (Blank(lastLog.message) \/ Invalid(lastLog.fields))) =>
              /\ lastLog.entry = 0
              /\ ~lastLog.printed
              /\ ~panicked
              /\ lastLog.diagnostic # "none"
                   <=> Priority(lastLog.level) >= Priority(logger.minLevel)
              /\ Blank(lastLog.message) =>
                   lastLog.diagnostic \in {"none", "invalid log message"})
  /\ [][LET Blank(str) == \A i \in 1..Len(str) : str[i] \in Whitespace
            Invalid(fields) ==
              /\ ~fields.nil
              /\ \/ Cardinality(DOMAIN fields.kv) > maxFieldsCount
                 \/ \E key \in DOMAIN fields.kv :
                      Blank(key) \/ Len(TrimSpace(key)) > maxFieldKeyLen
        IN  (lastLog' # lastLog
               /\ (Blank(lastLog'.message) \/ Invalid(lastLog'.fields))) =>
              UNCHANGED <<logQueue, nextId, outcome, tasks, panicked>>]_vars

\* an entry is queued, and the latest call, at a level the logger lets
\* through, was dropped for a field set with a blank key
C20_Witness ==
  /\ logQueue # <<>>
  /\ lastLog.diagnostic = "invalid log fields"
  /\ \E key \in DOMAIN lastLog.fields.kv : key = <<" ">>

\* C21: the logger hands an entry to the sender only in a call whose level
\* has a priority at least that of the logger's minimum level (DEBUG < INFO
\* < WARNING < ERROR < CRITICAL), a call below it leaves the sender as it
\* was, and a Config with an empty LogLevel makes the minimum level INFO.
C21_EnqueuesOnlyAtOrAboveMinLevel ==
  /\ [](/\ Priority("DEBUG") < Priority("INFO")
        /\ Priority("INFO") < Priority("WARNING")
        /\ Priority("WARNING") < Priority("ERROR")
        /\ Priority("ERROR") < Priority("CRITICAL")
        /\ logger.given.LogLevel = "" => logger.minLevel = "INFO"
        /\ lastLog.entry # 0 =>
             Priority(lastLog.level) >= Priority(logger.minLevel))
  /\ [][(lastLog' # lastLog
           /\ Priority(lastLog'.level) < Priority(logger.minLevel)) =>
          UNCHANGED <<logQueue, nextId, outcome, tasks>>]_vars

\* a logger made with an empty LogLevel has an INFO entry queued and has
\* just filtered a DEBUG call with a valid message
C21_Witness ==
  /\ logger.given.LogLevel = ""
  /\ \E e \in Range(logQueue) : outcome[e] = "enqueued"
  /\ lastLog.level = "DEBUG"
  /\ lastLog.verdict = "filtered"
  /\ lastLog.message = <<"m">>

\* C22: a second EnsureFields, applied to the map an EnsureFields returned
\* (for a nil map too), returns an equal map, and every key of the map an
\* EnsureFields returns is non-empty and has no whitespace at either end.
C22_EnsureFieldsIdempotent ==
  /\ [](lastFormat.op \in {"EnsureFields", "EnsureFieldsAgain"} =>
          /\ ~lastFormat.result.nil
          /\ \A key \in DOMAIN lastFormat.result.kv :
               /\ key # <<>>
               /\ key[1] \notin Whitespace
               /\ key[Len(key)] \notin Whitespace)
  /\ [][lastFormat'.op = "EnsureFieldsAgain" =>
          lastFormat'.result = lastFormat.result]_vars

\* a second EnsureFields has returned the map of the first, which had been
\* given a key with whitespace and a value that is not JSON-serializable
C22_Witness ==
  /\ lastFormat.op = "EnsureFieldsAgain"
  /\ lastFormat.base = lastFormat.result
  /\ lastFormat.result = Map(<<"a">> :> SprintOfFunc)

\* C23: the map MergeFields returns has exactly the trimmed, non-empty keys
\* of base and of additional; a key that additional has carries a value of
\* additional, any other key a value of base; a nil argument counts as the
\* empty map, so nil merged with nil is the empty map, and {a:1, b:2}
\* merged with {b:3, c:4} is {a:1, b:3, c:4}.
C23_MergeOverlayWins ==
  LET Keys(m) == {TrimSpace(k) : k \in DOMAIN m.kv} \ {<<>>}
      Values(m, key) ==
        {IF m.kv[k] = FuncValue THEN SprintOfFunc ELSE m.kv[k] :
           k \in {x \in DOMAIN m.kv : TrimSpace(x) = key}}
      base == lastFormat.base
      additional == lastFormat.additional
      result == lastFormat.result
  IN  lastFormat.op = "MergeFields" =>
        /\ ~result.nil
        /\ DOMAIN result.kv = Keys(base) \cup Keys(additional)
        /\ \A key \in DOMAIN result.kv :
             IF key \in Keys(additional)
               THEN result.kv[key] \in Values(additional, key)
               ELSE result.kv[key] \in Values(base, key)
        /\ (base.nil /\ additional.nil) => result = Map(<<>>)
        /\ (/\ base = Map((<<"a">> :> "1") @@ (<<"b">> :> "2"))
            /\ additional = Map((<<"b">> :> "3") @@ (<<"c">> :> "4"))) =>
             result = Map((<<"a">> :> "1") @@ (<<"b">> :> "3") @@ (<<"c">> :> "4"))

\* {a:1, b:2} has been merged with {b:3, c:4}
C23_Witness ==
  /\ lastFormat.op = "MergeFields"
  /\ lastFormat.base = Map((<<"a">> :> "1") @@ (<<"b">> :> "2"))
  /\ lastFormat.additional = Map((<<"b">> :> "3") @@ (<<"c">> :> "4"))
  /\ lastFormat.result.kv[<<"b">>] = "3"

\* C24 (as stated): the stored last-issued value is the most recently
\* returned timestamp, here whenever no call is in progress.
C24_LastIssuedIsLastReturned ==
  (returned # <<>> /\ \A c \in TsCallers : tsPc[c] = "idle") =>
    formatTimestamp(lastTimestampNs) = returned[Len(returned)]

\* C24 (amended): a call issues the clock reading when that is greater than
\* the last issued value and the last issued value plus one otherwise, and
\* stores what it issued: the stored value only grows, it is the timestamp
\* issued latest under the lock, and every returned timestamp is an issued
\* one.
C24_IssuesClockOrLastPlusOne ==
  /\ [](/\ issued # <<>> =>
             formatTimestamp(lastTimestampNs) = issued[Len(issued)]
        /\ Range(returned) \subseteq Range(issued))
  /\ [][/\ lastTimestampNs' >= lastTimestampNs
        /\ (lastTimestampNs' # lastTimestampNs \/ issued' # issued) =>
             /\ lastTimestampNs' = IF clock > lastTimestampNs
                                     THEN clock ELSE lastTimestampNs + 1
             /\ issued' = Append(issued, formatTimestamp(lastTimestampNs'))]_vars

\* the clock stood still at the last nanosecond of a second: the second
\* call issued the first nanosecond of the next second
C24_Witness ==
  /\ Len(issued) >= 2
  /\ issued[1] = formatTimestamp(NanosPerSecond - 1)
  /\ issued[2] = formatTimestamp(NanosPerSecond)
  /\ clock = NanosPerSecond - 1

\* C25: a Flush call takes entries one at a time from the head of the
\* queue, only while it holds fewer than batchSize of them; it goes on to
\* the dispatch as soon as it finds the queue empty or holds batchSize
\* entries; and it dispatches the entries it took, in the order it took
\* them, as the batch of one new delivery goroutine, leaving the queue as
\* it is.
C25_FlushTakesOneBatch ==
  [][\A f \in Flushers :
       LET d == <<"flush", f>>
       IN  /\ (logs'[d] # logs[d] /\ logs'[d] # <<>>) =>
                /\ Len(logs[d]) < batchSize
                /\ logQueue # <<>>
                /\ logs'[d] = Append(logs[d], Head(logQueue))
                /\ logQueue' = Tail(logQueue)
           /\ (logs[d] # <<>> /\ logs'[d] = <<>>) =>
                /\ flushPc[f] = "send" /\ flushPc'[f] = "idle"
                /\ logQueue' = logQueue
                /\ \E t \in tasks' \ tasks :
                     t.batch = logs[d] /\ tasks' = tasks \cup {t}
           /\ (flushPc'[f] = "drain") =>
                Len(logs'[d]) < batchSize /\ logs'[d] # <<>>
           /\ (/\ flushPc[f] = "drain" /\ logQueue = <<>>
               /\ (flushPc'[f] # flushPc[f] \/ logs'[d] # logs[d])) =>
                flushPc'[f] = "send" /\ logs'[d] = logs[d]
           /\ (flushPc[f] = "idle" /\ flushPc'[f] = "idle") =>
                logs'[d] = <<>>]_vars

\* a Flush holds batchSize entries and is about to dispatch them while the
\* next entry is still queued
C25_Witness ==
  /\ flushPc[1] = "send"
  /\ Len(logs[<<"flush", 1>>]) = batchSize
  /\ logQueue # <<>>
  /\ Head(logQueue) = logs[<<"flush", 1>>][batchSize] + 1

\* C26: WithContext adds one logger and changes no other: the new logger
\* has the sender and the minimum level of its parent, its context is a
\* MergeFields of the parent's context and the given one, in which every
\* sanitized key of the given context carries a value given under it and
\* every other key the parent's value, and the parent's context is what it
\* was.
C26_WithContextDerivesLogger ==
  [][loggers' # loggers =>
       LET child == loggers'[Len(loggers')]
           parent == loggers[child.parent]
           GivenKeys == {TrimSpace(k) : k \in DOMAIN child.given.kv} \ {<<>>}
           GivenValues(key) ==
             {IF child.given.kv[k] = FuncValue
                THEN SprintOfFunc ELSE child.given.kv[k] :
                k \in {x \in DOMAIN child.given.kv : TrimSpace(x) = key}}
       IN  /\ Len(loggers') = Len(loggers) + 1
           /\ \A i \in 1..Len(loggers) : loggers'[i] = loggers[i]
           /\ child.parent \in 1..Len(loggers)
           /\ child.sender = parent.sender
           /\ child.minLevel = parent.minLevel
           /\ child.context \in MergeFields(parent.context, child.given)
           /\ DOMAIN child.context.kv = DOMAIN parent.context.kv \cup GivenKeys
           /\ \A key \in DOMAIN child.context.kv :
                IF key \in GivenKeys
                  THEN child.context.kv[key] \in GivenValues(key)
                  ELSE child.context.kv[key] = parent.context.kv[key]]_vars

\* a logger derived from a derived logger has overridden the value its
\* parent holds under "a" and kept the parent's "c"
C26_Witness ==
  /\ Len(loggers) = 3
  /\ loggers[3].parent = 2
  /\ loggers[2].context = Map(<<"a">> :> "1")
  /\ loggers[3].given = Map((<<" ", "a">> :> FuncValue) @@ (<<>> :> "4"))
  /\ loggers[3].context = Map(<<"a">> :> SprintOfFunc)

\* C27 (as stated): a delivery goroutine is started without a token of the
\* gate only when maxWorkers goroutines holding a token are running.
C27_FallbackOnlyAtMaxWorkers ==
  [][\A t \in tasks' \ tasks :
       ~t.gated => Cardinality({u \in tasks : u.gated}) >= maxWorkers]_vars

\* C28: a sendBatch that has drained a non-empty batch can always go on to
\* the dispatch, whatever the gate holds; the dispatch starts one delivery
\* goroutine for that batch in the same call, with a token taken from the
\* gate when the gate holds one and without a token otherwise; and a
\* goroutine that took a token puts it back when it ends, one that took
\* none puts none.
C28_DispatchNeverWaits ==
  /\ []((~panicked /\ tickerPc = "send") =>
          logs[Ticker] # <<>> /\ ENABLED TickerSend)
  /\ [](\A f \in Flushers : (~panicked /\ flushPc[f] = "send") =>
          logs[<<"flush", f>>] # <<>> /\ ENABLED FlushSend(f))
  /\ [](\A c \in ShutdownCallers : (~panicked /\ sdPc[c] = "send") =>
          logs[<<"shutdown", c>>] # <<>> /\ ENABLED ShutdownSend(c))
  /\ [][/\ \A d \in Drainers :
            (logs[d] # <<>> /\ logs'[d] = <<>>) =>
              \E t \in tasks' \ tasks :
                /\ tasks' = tasks \cup {t}
                /\ t.batch = logs[d]
                /\ t.gated = (workerSem > 0)
                /\ workerSem' = IF workerSem > 0 THEN workerSem - 1 ELSE 0
        /\ \A t \in tasks \ tasks' :
            \/ panicked'
            \/ workerSem' = IF t.gated THEN workerSem + 1 ELSE workerSem]_vars

\* the Flush caller is at the dispatch with its batch while the gate is
\* empty, and the batch the ticker dispatched before runs with the token
C28_Witness ==
  /\ flushPc[1] = "send"
  /\ workerSem = 0
  /\ tasks # {}
  /\ \A t \in tasks : t.gated

\* C29 (as stated): a response with a status of 200 to 299, a body that
\* parses and a rejected count above 0 ends in the per-entry rejection
\* report, and a response with any other status in the status diagnostic
\* with which the batch is given up.
C29_TwoHundredsClassified ==
  /\ (/\ lastDelivery.status \in 200..299
      /\ lastDelivery.parsable
      /\ lastDelivery.rejected > 0) => lastDelivery.path = "rejected"
  /\ (lastDelivery.status # 0 /\ lastDelivery.status \notin 200..299) =>
       lastDelivery.path = "status"

\* C30: no delivery goroutine holds an empty batch, no sendBatch stands at
\* the dispatch with an empty batch, no HTTP exchange was made for an empty
\* batch, and while the queue and every batch being formed are empty no
\* step of the ticker, of a Flush or of a Shutdown starts a delivery.
C30_EmptyDrainDispatchesNothing ==
  /\ [](/\ \A t \in tasks : t.batch # <<>>
        /\ lastDelivery.path # "none" => lastDelivery.batch # <<>>
        /\ tickerPc = "send" => logs[Ticker] # <<>>
        /\ \A f \in Flushers : flushPc[f] = "send" => logs[<<"flush", f>>] # <<>>
        /\ \A c \in ShutdownCallers :
             sdPc[c] = "send" => logs[<<"shutdown", c>>] # <<>>)
  /\ [][(logQueue = <<>> /\ \A d \in Drainers : logs[d] = <<>>) =>
          /\ tasks' \subseteq tasks
          /\ lastDelivery'.posts <= lastDelivery.posts
                \/ lastDelivery'.batch # <<>>
          /\ tickerPc' # "send"
          /\ \A f \in Flushers : flushPc'[f] # "send"
          /\ \A c \in ShutdownCallers : sdPc'[c] # "send"]_vars

\* a Shutdown ran its final drain on a sender that was never given an
\* entry, and returned: nothing was dispatched or posted
C30_Witness ==
  /\ \E c \in ShutdownCallers : sdPc[c] = "returned"
  /\ nextId = 1
  /\ tasks = {}
  /\ lastDelivery = NoDelivery

\* C31 (as stated): a call at a level the logger lets through, with valid
\* fields and a message longer than the maximum length, hands the sender an
\* entry whose message has the maximum length and ends in "...".
C31_LongMessageTruncatedAndEnqueued ==
  (/\ lastLog.verdict \notin {"none", "filtered", "invalid log fields"}
   /\ Len(TrimSpace(lastLog.message)) > defaultMaxMessageLength) =>
    /\ lastLog.entry # 0
    /\ Len(lastLog.entryMessage) = defaultMaxMessageLength
    /\ SubSeq(lastLog.entryMessage, defaultMaxMessageLength - 2,
              defaultMaxMessageLength) = Ellipsis

\* C32 (as stated): at all times the accepted entries are as many as those
\* queued plus those in dispatched batches (running or finished).
C32_AcceptedIsQueuedPlusDispatched ==
  Cardinality(IdsWith("enqueued")) =
    Len(logQueue) + Cardinality(TaskIds \cup posted)

\* C32 (amended): every accepted entry is at exactly one place: in the
\* queue, in the batch a sendBatch is forming, in the batch of a running
\* delivery, or among the entries of the finished deliveries; it is never
\* in two batches, and an entry that was not accepted is nowhere.  So the
\* accepted entries are as many as those queued, those in batches being
\* formed and those in dispatched batches together.
C32_EveryAcceptedEntryAtOnePlace ==
  /\ \A e \in EntryIds :
       Occurrences(e) + (IF e \in posted THEN 1 ELSE 0)
         = IF outcome[e] = "enqueued" THEN 1 ELSE 0
  /\ \A t, u \in tasks : t # u => Range(t.batch) \cap Range(u.batch) = {}
  /\ Cardinality(IdsWith("enqueued")) =
       Len(logQueue) + Cardinality(UNION {Range(logs[d]) : d \in Drainers})
         + Cardinality(TaskIds \cup posted)

\* of three accepted entries one has been delivered, one is in a running
\* delivery and one is in the batch a Flush is forming
C32_Witness ==
  /\ Cardinality(IdsWith("enqueued")) = 3
  /\ Cardinality(posted) = 1
  /\ Cardinality(TaskIds) = 1
  /\ \E f \in Flushers : Len(logs[<<"flush", f>>]) = 1
  /\ logQueue = <<>>

\* C33: the tokens in the gate and the running delivery goroutines that
\* hold one are together the minWorkers tokens NewSender put in; so the
\* gate never holds more than its capacity maxWorkers, and a goroutine
\* that holds a token finds room to put it back whenever it ends.
C33_SlotsConserved ==
  /\ workerSem + Cardinality({t \in tasks : t.gated}) = minWorkers
  /\ workerSem \in 0..maxWorkers
  /\ \A t \in tasks : ReleaseReady(workerSem, t.gated)
  /\ \A t \in tasks : t.gated => workerSem < maxWorkers

\* a delivery started without a token has ended while the one holding the
\* token still runs: the gate is still empty
C33_Witness ==
  /\ workerSem = 0
  /\ \E t \in tasks : t.gated /\ t.batch = <<1>>
  /\ 2 \in posted

\* C34 (as stated): every Shutdown call that was made returns in the end,
\* and the ticker goroutine exits once the stop signal is raised.
C34_ShutdownReturns ==
  /\ \A c \in ShutdownCallers : (sdPc[c] # "idle") ~> (sdPc[c] = "returned")
  /\ stopCh ~> (tickerPc = "exited")

\* C35: with several concurrent Shutdown calls, whenever any of them has
\* returned the ticker goroutine has exited and no call is inside the body
\* any more, and every entry of a batch that the body was about to dispatch
\* has been through a delivery goroutine that has finished.
C35_NoShutdownReturnsEarly ==
  /\ [](\A o \in ShutdownCallers : sdPc[o] = "returned" =>
          /\ tickerPc = "exited"
          /\ \A c \in ShutdownCallers : sdPc[c] \notin {"drain", "send", "wait"})
  /\ \A c \in ShutdownCallers :
       \A B \in UNION {[1..n -> 1..MaxEntries] : n \in 1..batchSize} :
         [](sdPc[c] = "send" /\ logs[<<"shutdown", c>>] = B =>
              [](\A o \in ShutdownCallers :
                    sdPc[o] = "returned" => Range(B) \subseteq posted))

\* one call is inside the body, waiting for a delivery that still runs,
\* while another call is held back by the Once
C35_Witness ==
  /\ \E c \in ShutdownCallers : sdPc[c] = "wait"
  /\ \E o \in ShutdownCallers : sdPc[o] = "blocked"
  /\ tasks # {}
  /\ tickerPc = "exited"

\* C36 (as stated): once a Shutdown call has returned, no delivery
\* goroutine is started any more (no wg.Add(1) of a dispatch), whether or
\* not Flush is called and entries are left in the queue.
C36_NoDispatchAfterShutdown ==
  [][SomeShutdownReturned => wg' <= wg /\ tasks' \subseteq tasks]_vars

\* C37 (as stated): the entries of every batch handed to a delivery
\* goroutine are in strictly increasing timestamp order.
C37_BatchInTimestampOrder ==
  \A t \in tasks : \A i, j \in 1..Len(t.batch) :
    i < j => TsLess(t.batch[i], t.batch[j])

\* C37 (amended): timestamps strictly increase in the order they are
\* generated, and the entries of every batch are in the order of their
\* AddLog calls, each entry once.
C37_BatchInSubmissionOrder ==
  /\ \A i, j \in 1..Len(issued) : i < j => TsLess(issued[i], issued[j])
  /\ \A t \in tasks : \A i, j \in 1..Len(t.batch) :
       i < j => \E m, n \in 1..Len(returned) :
                  /\ m < n
                  /\ returned[m] = t.batch[i]
                  /\ returned[n] = t.batch[j]

\* a batch of two entries, the later timestamp first
C37_Witness ==
  \E t \in tasks :
    /\ Len(t.batch) = 2
    /\ TsLess(t.batch[2], t.batch[1])

\* C38 (as stated): every entry the logger builds and hands to AddLog has
\* at most maxFieldsCount fields, the context of the logger and the fields
\* of the call counted together after the merge.
C38_EntryFieldsWithinLimit ==
  lastLog.verdict = "logged" =>
    Cardinality(DOMAIN lastLog.entryFields.kv) <= maxFieldsCount

\* C39 (as stated): EnsureFields is a function of its argument: the
\* mapping a call returned is the only mapping a call on the same argument
\* can return.
C39_EnsureFieldsDeterministic ==
  lastFormat.op = "EnsureFields" =>
    EnsureFields(lastFormat.base) = {lastFormat.result}

\* C40 (as stated): Enabled(level) of a ZapCore is true exactly when the
\* priority of convertZapLevel(level) is at least the priority of the
\* configured minimum level.
C40_EnabledMatchesPriority ==
  lastEnabled.level # "none" =>
    (lastEnabled.enabled <=>
       Priority(convertZapLevel(lastEnabled.level)) >= Priority(zapCore.LogLevel))

====
